---- MODULE Spec2Model ----
(***************************************************************************)
(* Product Feedback Analyzer: the incremental-fetch pipeline               *)
(* (src/src/index.ts main), its run-state file (utils/last-run.ts), the    *)
(* Jira source adapter (src/src/jira/client.ts), the query cache           *)
(* (src/src/query/loader.ts), the search functions over the cache          *)
(* (src/src/query/search.ts) and the analyzer (src/src/claude/analyzer.ts).*)
(*                                                                         *)
(* Time is the JavaScript Date value: integer milliseconds.  The clock of  *)
(* the model starts at T0 and advances by PipelineSteps / CacheSteps.      *)
(* .last-run is held character by character, and a Date read from it as    *)
(* a day number and the milliseconds of the day.                           *)
(* The process and the Jira account are taken to be in the same time zone, *)
(* one that leaves daylight saving time at DstEnd: the local               *)
(* "YYYY-MM-DD HH:mm" the adapter prints is read back by Jira as an        *)
(* instant at which the wall clock of that zone shows that minute.         *)
(***************************************************************************)
EXTENDS Integers, Sequences, FiniteSets, TLC

\* ------------------------------------------------------------------ bounds
MaxRecords == 2     \* upstream record ids 1..MaxRecords
MaxEdits   == 1     \* creations and edits of upstream records per behaviour
MaxTicks   == 1     \* clock advances per behaviour
MaxRuns    == 2     \* pipeline invocations per behaviour
MaxFaults  == 1     \* failing or interrupted writes of .last-run, where the disk may fail
MaxLoads   == 2     \* loadJiraIssues calls per behaviour
MaxIssues  == 2     \* issues in a list handed to analyzeIssues
MaxLines   == 3     \* lines of a generated response
MaxBody    == 3     \* characters of a short description
MaxChildren == 2    \* nodes in the content of a document node

\* ------------------------------------------------------- program constants
OneMinute == 60 * 1000                  \* resolution of the JQL date literal
FourDays  == 4 * 24 * 60 * 60 * 1000    \* JQL "updated >= -4d"
oneHour   == 60 * 60 * 1000             \* cache freshness window
maxResults == 100                       \* page size of POST /search/jql

\* ------------------------------------------------------------- environment
T0          == 10 * 24 * 60 * 60 * 1000        \* a minute-aligned instant
TwentySec   == 20 * 1000
TwentyMin   == 20 * 60 * 1000
ThreeDays   == 3 * 24 * 60 * 60 * 1000
FiveDays    == 5 * 24 * 60 * 60 * 1000
OneDay      == 24 * 60 * 60 * 1000
Ids         == 1 .. MaxRecords
Procs       == {1, 2}                          \* pipeline invocations (processes)
Null        == -1                              \* JavaScript null (Date | null)
All         == -2                              \* the literal 'all' of fetchIssuesWithFilter
NoRecord    == [created |-> Null, updated |-> Null]

VARIABLES
  now,          \* wall clock (ms)
  ticks,        \* clock advances so far (bounds the behaviour)
  faults,       \* failing or interrupted writes of .last-run that may still happen
  upstream,     \* Jira: id -> [created, updated], NoRecord when the id does not exist
  edits,        \* creations and edits so far (bounds the behaviour)
  lastRunFile,  \* content of .last-run
  pc,           \* per invocation: the await it is suspended at, or Idle/Done/Failed
  runStartTime, \* per invocation: const runStartTime = new Date()
  lastRun,      \* per invocation: const lastRun = getLastRunTimestamp()
  cutoffUsed,   \* per invocation: the lower bound Jira applied to `updated` (Null: none yet)
  issues,       \* per invocation: the fetched issues, a set of [id, created, updated]
  analysis,     \* per invocation: the AnalysisResult, or NoAnalysis
  exitCode,     \* per invocation: Null while running, else the process exit code
  log,          \* per invocation: the steps that have returned successfully, in order
  genCalls,     \* per invocation: calls of client.messages.create
  sinkCalls,    \* per invocation: calls of sgMail.send
  sinkArg,      \* per invocation: the analysis handed to the last sgMail.send
  wrote,        \* per invocation: fs.writeFileSync(LAST_RUN_FILE) succeeded in this run
  fileAtStart,  \* per invocation: .last-run as it was when the invocation started
  fetchIssuedAt,\* per invocation: the time fetchBoardIssues was called (Null: not yet)
  jiraCalls,    \* per invocation: requests sent to Jira (testConnection, fetchBoardIssues)
  runs,         \* invocations started so far
  prev,         \* the previous finished invocation: [start, outcome, file]
  delivered,    \* ids that some delivered report has included
  owed,         \* ids some run's filter covered and no delivered report has included since
  skipped,      \* ids that were owed and that a later successful fetch did not return
  cacheFile,    \* content of .jira-data-cache.json
  lpc,          \* loadJiraIssues: "idle", "fetching" (awaiting fetchAllBoardIssues), "done", "failed"
  lforce,       \* loadJiraIssues: forceRefresh of the current call
  lstart,       \* loadJiraIssues: Date.now() when the cache was examined
  lcacheAtCall, \* loadJiraIssues: the cache file as it was when the call started
  lreadOk,      \* loadJiraIssues: fs.readFileSync(CACHE_FILE) of the current call did not throw
  lfetched,     \* loadJiraIssues: the list the fetch of this call returned
  lresult,      \* loadJiraIssues: the returned value
  lfetchCalls,  \* loadJiraIssues: fetchAllBoardIssues calls of the current call
  lwrites,      \* loadJiraIssues: successful cache writes of the current call
  lcalls,       \* loadJiraIssues calls so far
  qcache,       \* search.ts: content of .jira-data-cache.json as the search function finds it
  qop,          \* search.ts: the exported function that is called
  qarg,         \* search.ts: its argument (key, query, productArea, theme)
  qresult,      \* search.ts: what the call returned or threw (NoResult: not called yet)
  anew,         \* analyzeIssues: newIssues, a list of [created, updated, labels]
  aall,         \* analyzeIssues: allIssues, or undefined
  alastRunDate, \* analyzeIssues: lastRunDate, or Null
  aresp,        \* analyzeIssues: what client.messages.create will answer
  apc,          \* analyzeIssues: "idle", "awaiting" (client.messages.create), "done", "failed"
  agen,         \* analyzeIssues: calls of client.messages.create
  ametrics,     \* analyzeIssues: const metrics
  aresult,      \* analyzeIssues: what the call returned or threw
  aprompt,      \* analyzeIssues: the content of the message sent to the generative service
  rawDescription,  \* simplifyIssues: issue.fields.description of the issue at hand
  description,     \* simplifyIssues: the description of the simplified issue
  descriptionLine, \* formatIssuesForAnalysis: the line that carries the description
  dpc              \* the issue at hand is "raw", "simplified", "formatted"

clockVars    == <<now, ticks>>
runVars      == <<pc, runStartTime, lastRun, cutoffUsed, issues, analysis, exitCode, log,
                  genCalls, sinkCalls, sinkArg, wrote, fileAtStart, fetchIssuedAt,
                  jiraCalls>>
historyVars  == <<runs, prev, delivered, owed, skipped>>
pipelineVars == <<lastRunFile, runVars, historyVars>>
loaderVars   == <<cacheFile, lpc, lforce, lstart, lcacheAtCall, lreadOk, lfetched, lresult,
                  lfetchCalls, lwrites, lcalls>>
jiraVars     == <<upstream, edits>>
searchVars   == <<qcache, qop, qarg, qresult>>
analyzerVars == <<anew, aall, alastRunDate, aresp, apc, agen, ametrics, aresult, aprompt>>
textVars     == <<rawDescription, description, descriptionLine, dpc>>
libVars      == <<searchVars, analyzerVars, textVars>>
vars         == <<clockVars, faults, jiraVars, pipelineVars, loaderVars, libVars>>

\* ---------------------------------------------------------------- helpers
Min(a, b) == IF a <= b THEN a ELSE b

Exists(id) == upstream[id] # NoRecord

\* The raw issue Jira returns for id: its key and the two timestamps.
Issue(id) == [id |-> id, created |-> upstream[id].created, updated |-> upstream[id].updated]

IdsOf(S) == {i.id : i \in S}

\* ------------------------------------------------- characters and trimming
\* the characters of \s and of String.prototype.trim: the WhiteSpace and the
\* LineTerminator of ECMAScript (tab, line feed, vertical tab U+000B, form
\* feed, carriage return, space, no-break space, the byte order mark, the line
\* and paragraph separators, and the space separators of Unicode)
WhiteSpace ==
  {" ", "\t", "\r", "\n", "\f", "U+000B", "U+00A0", "U+FEFF", "U+2028", "U+2029",
   "U+1680", "U+2000", "U+2001", "U+2002", "U+2003", "U+2004", "U+2005", "U+2006",
   "U+2007", "U+2008", "U+2009", "U+200A", "U+202F", "U+205F", "U+3000"}
Digits == {"0", "1", "2", "3", "4", "5", "6", "7", "8", "9"}

\* the number of leading characters of s that are in set
LeadingLen(s, set) ==
  CHOOSE k \in 0 .. Len(s) :
    /\ \A i \in 1 .. k : s[i] \in set
    /\ k = Len(s) \/ s[k + 1] \notin set

\* the number of trailing characters of s that are in set
TrailingLen(s, set) ==
  CHOOSE k \in 0 .. Len(s) :
    /\ \A i \in (Len(s) - k + 1) .. Len(s) : s[i] \in set
    /\ k = Len(s) \/ s[Len(s) - k] \notin set

\* String.prototype.trim (a string that neither starts nor ends with white
\* space is left as it is)
trim(s) ==
  IF s = <<>> \/ (s[1] \notin WhiteSpace /\ s[Len(s)] \notin WhiteSpace) THEN s
  ELSE IF LeadingLen(s, WhiteSpace) = Len(s) THEN <<>>
  ELSE SubSeq(s, LeadingLen(s, WhiteSpace) + 1, Len(s) - TrailingLen(s, WhiteSpace))

\* the value of a decimal digit
DigitValue(c) == CHOOSE n \in 0 .. 9 : <<"0", "1", "2", "3", "4", "5", "6", "7", "8", "9">>[n + 1] = c

\* ------------------------------------------------------------------ dates
\* A Date that is read from .last-run: the time value day * OneDay + ms, kept
\* as the number of the UTC day since the epoch and the milliseconds into that
\* day, because a text of one or three digits is read as a year far from the
\* clock of the model.  Date(t) is the Date of the time value t.
Date(t) == [day |-> t \div OneDay, ms |-> t % OneDay]

\* null, where a Date may stand, and the literal 'all'
NoDate    == [day |-> 0, ms |-> Null]
AllIssues == [day |-> 0, ms |-> All]

\* a.getTime() < b.getTime()
Before(a, b) == a.day < b.day \/ (a.day = b.day /\ a.ms < b.ms)

\* the Date delta milliseconds after d
Plus(d, delta) ==
  [day |-> d.day + (d.ms + delta) \div OneDay, ms |-> (d.ms + delta) % OneDay]

\* ------------------------------------------------------------- time zone
\* The process runs in a zone that is one hour ahead of UTC until daylight
\* saving time ends at DstEnd, and on UTC from then on.
DstShift == 60 * 60 * 1000
DstEnd   == T0 - ThreeDays

\* the offset of local time from UTC at the Date d
UtcOffset(d) == IF Before(d, Date(DstEnd)) THEN DstShift ELSE 0

\* LocalTime(d): the wall clock at the Date d, the value the getters
\* getFullYear .. getMinutes take apart
LocalTime(d) == Plus(d, UtcOffset(d))

\* UTC(local): the Date of a wall clock time; of the two instants of the hour
\* that daylight saving repeats, the earlier one
UTC(local) ==
  IF LocalTime(Plus(local, 0 - DstShift)) = local THEN Plus(local, 0 - DstShift) ELSE local

\* ------------------------------------------------------ utils/last-run.ts
\* .last-run is the sequence of its characters; AbsentFile stands for there
\* being no file (fs.existsSync is false).  The texts the model writes are
\* those of instants of January 1970, where its clock runs.
AbsentFile  == <<"ENOENT">>
GarbageFile == <<"n", "o", "n", "e">>

\* the file right after fs.writeFileSync has opened it: flag 'w' truncates
TruncatedFile == <<>>

\* the decimal digit of d, and the two digits of k
Digit(d) == <<"0", "1", "2", "3", "4", "5", "6", "7", "8", "9">>[d + 1]
TwoDigits(k) == <<Digit(k \div 10), Digit(k % 10)>>

\* timestamp.toISOString() for 0 <= t < 31 days: "1970-01-DDTHH:mm:ss.sssZ"
toISOString(t) ==
  <<"1", "9", "7", "0", "-", "0", "1", "-">> \o TwoDigits(t \div OneDay + 1) \o <<"T">>
    \o TwoDigits((t % OneDay) \div oneHour) \o <<":">>
    \o TwoDigits((t % oneHour) \div OneMinute) \o <<":">>
    \o TwoDigits((t % OneMinute) \div 1000) \o <<".">>
    \o <<Digit((t % 1000) \div 100)>> \o TwoDigits(t % 100) \o <<"Z">>

\* the length of that text, and the text of the epoch
IsoLength == 24
IsoEpoch  == toISOString(0)

\* the text has the characters of "1970-01-DDTHH:mm:ss.sssZ" as far as it goes:
\* the year and the month, digits where D, H, m and s stand, and the marks
IsoPrefix(text) ==
  /\ Len(text) <= IsoLength
  /\ \A i \in 1 .. Len(text) :
       IF i <= 8 \/ i \in {11, 14, 17, 20, 24} THEN text[i] = IsoEpoch[i]
       ELSE text[i] \in Digits

\* the number that the digits text[from] .. text[to] spell
RECURSIVE NumberAt(_, _, _)
NumberAt(text, from, to) ==
  IF to < from THEN 0 ELSE NumberAt(text, from, to - 1) * 10 + DigitValue(text[to])

\* new Date(text), NoDate for an Invalid Date, of a text that IsoPrefix holds
\* of, as Node reads it; any other text of the model is not a date.  A
\* complete date, "1970", "1970-01" and "1970-01-DD", is UTC.  A date with a
\* time and without the Z is local time, and so is what the fallback parser
\* of V8 reads: "1" is month 1, day 1 of the year 2001 (day 11323 of the
\* epoch), "197" the year 197 (which starts on day -647574), a trailing "-"
\* is skipped, and "1970-01-D" is the day D of the month.  The text is no date
\* when it ends inside the month, after the T, inside the hours, the minutes or
\* the seconds, or on a ":" or the "."; when the day is not one of 1 .. 31; and
\* when the time is not one of 00:00:00.000 .. 23:59:59.999 or 24:00:00.000.
\* One or two digits after the "." are tenths or hundredths of a second.
DateParse(text) ==
  LET n     == Len(text)
      dd    == NumberAt(text, 9, Min(n, 10))
      hh    == NumberAt(text, 12, 13)
      mm    == NumberAt(text, 15, 16)
      ss    == IF n >= 19 THEN NumberAt(text, 18, 19) ELSE 0
      sss   == IF n = 21 THEN NumberAt(text, 21, 21) * 100
               ELSE IF n = 22 THEN NumberAt(text, 21, 22) * 10
               ELSE IF n >= 23 THEN NumberAt(text, 21, 23)
               ELSE 0
      valid == \/ hh <= 23 /\ mm <= 59 /\ ss <= 59
               \/ hh = 24 /\ mm = 0 /\ ss = 0 /\ sss = 0
      wall  == Plus([day |-> dd - 1, ms |-> 0], ((hh * 60 + mm) * 60 + ss) * 1000 + sss)
  IN  IF ~IsoPrefix(text) THEN NoDate
      ELSE CASE n = 1          -> UTC([day |-> 11323, ms |-> 0])
             [] n = 3          -> UTC([day |-> 0 - 647574, ms |-> 0])
             [] n \in {4, 7}    -> Date(0)
             [] n \in {5, 8}    -> UTC(Date(0))
             [] n = 9          -> IF dd = 0 THEN NoDate ELSE UTC([day |-> dd - 1, ms |-> 0])
             [] n = 10         -> IF dd \in 1 .. 31 THEN [day |-> dd - 1, ms |-> 0] ELSE NoDate
             [] n \in {16, 19, 21, 22, 23} ->
                  IF dd \in 1 .. 31 /\ valid THEN UTC(wall) ELSE NoDate
             [] n = IsoLength  -> IF dd \in 1 .. 31 /\ valid THEN wall ELSE NoDate
             [] OTHER          -> NoDate

\* (variant: without the isNaN check a content that is not a date comes back as
\* a Date, here the epoch)
getLastRunTimestampUnchecked(file, readOk) ==
  IF file = AbsentFile THEN NoDate
  ELSE IF ~readOk THEN NoDate
  ELSE IF DateParse(trim(file)) # NoDate THEN DateParse(trim(file))
  ELSE Date(0)

\* getLastRunTimestamp(): null when the file is absent, when reading throws, and
\* when the trimmed content is not a date; else the date it holds
getLastRunTimestamp(file, readOk) ==
  IF file = AbsentFile THEN NoDate
  ELSE IF ~readOk THEN NoDate
  ELSE DateParse(trim(file))

\* what the fs.writeFileSync of saveLastRunTimestamp gets done: the file could
\* not be opened, or it was opened and `chars` characters of the text were
\* written before the write failed (a full disk, a file size limit);
\* IsoLength characters are the whole text
Written ==
  {[opened |-> FALSE, chars |-> 0]} \cup {[opened |-> TRUE, chars |-> n] : n \in 0 .. IsoLength}

WroteAll(written) == written.opened /\ written.chars = IsoLength

\* (variant: a later date that the file holds is kept)
saveLastRunTimestampKeepingLatest(file, timestamp, written) ==
  IF ~written.opened THEN file
  ELSE IF WroteAll(written) /\ Before(Date(timestamp), DateParse(file)) THEN file
  ELSE SubSeq(toISOString(timestamp), 1, written.chars) \o SubSeq(file, written.chars + 1, Len(file))

\* saveLastRunTimestamp(timestamp): what the write leaves of `file`, the file
\* as it is when the write begins: empty since this call opened it, unless
\* another process has written to it in between.  The characters go to the
\* start of the file and what the file holds beyond them stays; a failing
\* write is caught, and leaves the file as far as it got
saveLastRunTimestamp(file, timestamp, written) ==
  IF ~written.opened THEN file
  ELSE SubSeq(toISOString(timestamp), 1, written.chars) \o SubSeq(file, written.chars + 1, Len(file))

\* ---------------------------------------------------- jira/client.ts
\* "YYYY-MM-DD HH:mm": getFullYear() .. getMinutes() of the date, which is the
\* wall clock of the process's zone at that instant, seconds and milliseconds
\* dropped; the text carries no offset.  It is kept as the number of that
\* minute, counted from the epoch of the wall clock
FormatJqlDate(since) == LocalTime(since).day * (OneDay \div OneMinute) + LocalTime(since).ms \div OneMinute

\* the instants Jira may read the literal as: those at which the wall clock
\* shows it, two of them in the hour that daylight saving repeats
JqlInstants(minute) ==
  LET wall == [day |-> minute \div (OneDay \div OneMinute),
               ms  |-> (minute % (OneDay \div OneMinute)) * OneMinute]
  IN  {d \in {Plus(wall, 0 - DstShift), wall} : LocalTime(d) = wall}

\* dateFilter of fetchIssuesWithFilter(since), since being 'all', null or a Date
DateFilter(since) ==
  IF since = AllIssues THEN [mode |-> "all", bound |-> Null]
  ELSE IF since # NoDate THEN [mode |-> "since", bound |-> FormatJqlDate(since)]
  ELSE [mode |-> "lookback", bound |-> Null]

\* the lower bounds on `updated` that Jira may apply at time t for a filter
FilterCutoffs(filter, t) ==
  CASE filter.mode = "all"      -> {NoDate}
    [] filter.mode = "since"    -> JqlInstants(filter.bound)
    [] filter.mode = "lookback" -> {Date(t - FourDays)}

\* the ids the JQL selects when Jira applies the lower bound cutoff
Matching(filter, cutoff) ==
  {id \in Ids : Exists(id) /\ (filter.mode = "all" \/ ~Before(Date(upstream[id].updated), cutoff))}

\* ORDER BY updated DESC, maxResults: the pages Jira may answer with
Pages(m) ==
  {S \in SUBSET m :
     /\ Cardinality(S) = Min(Cardinality(m), maxResults)
     /\ \A a \in S, b \in m \ S : upstream[a].updated >= upstream[b].updated}

\* fetchBoardIssues(since) / fetchAllBoardIssues(): the possible answers at time t
FetchAnswers(since, t, cutoff) ==
  {{Issue(id) : id \in S} : S \in Pages(Matching(DateFilter(since), cutoff))}

\* simplifyIssues(issues): one SimplifiedIssue per raw issue, key and dates kept
simplifyIssues(raw) == {[id |-> i.id, created |-> i.created, updated |-> i.updated] : i \in raw}

\* ------------------------------------------------------ query/loader.ts
\* .jira-data-cache.json.  kind: "absent" (no file), "unparsable" (JSON.parse
\* throws), "null" (the JSON value null), "snapshot" (any other JSON value);
\* timestamp: new Date(cache.timestamp).getTime(), Null for NaN; shape of
\* cache.issues: "array", "missing" (undefined or null) or "scalar" (a string,
\* number or object, whose .length can be read)
NoCacheFile == [kind |-> "absent", timestamp |-> Null, shape |-> "missing", issues |-> {}]

\* the file JSON.stringify(cache) leaves
Snapshot(t, list) == [kind |-> "snapshot", timestamp |-> t, shape |-> "array", issues |-> list]

\* (variant: a snapshot exactly one hour old still counts as fresh)
CacheFreshInclusive(cache, t) == cache.timestamp # Null /\ t - cache.timestamp <= oneHour

\* cacheAge < oneHour, false when the age is NaN
CacheFresh(cache, t) == cache.timestamp # Null /\ t - cache.timestamp < oneHour

\* the first block of loadJiraIssues returns cache.issues: the file exists, is
\* read without an error, parses to something whose fields can be read, is
\* fresh, and reading cache.issues.length does not throw
CacheHit(cache, forceRefresh, readOk, t) ==
  /\ ~forceRefresh
  /\ cache.kind = "snapshot"
  /\ readOk
  /\ CacheFresh(cache, t)
  /\ cache.shape # "missing"

\* what `return cache.issues` returns
CachedValue(cache) == [shape |-> cache.shape, issues |-> cache.issues]

\* (variant: the fetched issues are merged into the snapshot that was there)
RefreshedCacheMerging(old, t, list) == Snapshot(t, old.issues \cup list)

\* what loadJiraIssues writes after a fetch
RefreshedCache(old, t, list) == Snapshot(t, list)

\* a file that JSON.parse throws on
UnparsableCache == [kind |-> "unparsable", timestamp |-> Null, shape |-> "missing", issues |-> {}]

\* what fs.writeFileSync(CACHE_FILE, ...) gets done: all of it; nothing, the
\* file could not be opened; part of it, the file was opened, which truncates
\* it, and the write failed before the closing brace of the JSON text
CacheWritten == {"all", "nothing", "part"}

\* the cache file after the write of loadJiraIssues, whose failure is caught
WrittenCache(old, t, list, written) ==
  IF written = "all" THEN RefreshedCache(old, t, list)
  ELSE IF written = "part" THEN UnparsableCache
  ELSE old

\* what `return issues` returns after a fetch
FetchedValue(list) == [shape |-> "array", issues |-> list]

\* ------------------------------------------------------ claude/analyzer.ts
NoAnalysis == [totalIssues |-> Null, of |-> {}]

\* analyzeIssues(newIssues) for a non-empty list, once the generative call returned
AnalysisOf(simplified) == [totalIssues |-> Cardinality(simplified), of |-> IdsOf(simplified)]

NoValue == [shape |-> "none", issues |-> {}]

\* ------------------------------------------------------------ environment
\* the clock advances
Tick(steps) ==
  /\ ticks < MaxTicks
  /\ \E d \in steps : now' = now + d
  /\ ticks' = ticks + 1
  /\ UNCHANGED <<faults, jiraVars, pipelineVars, loaderVars, libVars>>

\* somebody creates the record id in Jira, or edits it: `updated` becomes now
\* (ids are handed out in order)
Upsert(id) ==
  /\ edits < MaxEdits
  /\ upstream[id].updated # now
  /\ \A j \in Ids : j < id => Exists(j)
  /\ edits' = edits + 1
  /\ upstream' = [upstream EXCEPT ![id] =
                    [created |-> IF Exists(id) THEN upstream[id].created ELSE now,
                     updated |-> now]]
  /\ UNCHANGED <<clockVars, faults, pipelineVars, loaderVars, libVars>>

\* ------------------------------------------------------- src/index.ts main
\* an invocation is in progress: its process has neither exited nor been killed
Running(p) == pc[p] \notin {"Idle", "Done", "Failed", "Crashed"}

\* (variant: saveLastRunTimestamp() called without its argument, which defaults
\* to new Date())
SavedTimestampNow(p) == now

\* the value main hands to saveLastRunTimestamp
SavedTimestamp(p) == runStartTime[p]

\* (variant: the catch block records the run before exiting)
FailRunPersisting(p) ==
  /\ pc' = [pc EXCEPT ![p] = "Failed"]
  /\ exitCode' = [exitCode EXCEPT ![p] = 1]
  /\ lastRunFile' = toISOString(runStartTime[p])
  /\ wrote' = [wrote EXCEPT ![p] = TRUE]

\* catch (error) { ...; process.exit(1) }: nothing is written
FailRun(p) ==
  /\ pc' = [pc EXCEPT ![p] = "Failed"]
  /\ exitCode' = [exitCode EXCEPT ![p] = 1]
  /\ UNCHANGED <<lastRunFile, wrote>>

\* (variant: the run-state is saved before the early return)
EmptyRunPersisting(p) ==
  /\ pc' = [pc EXCEPT ![p] = "Done"]
  /\ exitCode' = [exitCode EXCEPT ![p] = 0]
  /\ lastRunFile' = toISOString(runStartTime[p])
  /\ wrote' = [wrote EXCEPT ![p] = TRUE]
  /\ UNCHANGED genCalls

\* (variant: no early return, the empty list goes on to the analysis)
EmptyRunContinuing(p) ==
  /\ pc' = [pc EXCEPT ![p] = "Analyze"]
  /\ UNCHANGED <<exitCode, lastRunFile, wrote, genCalls>>

\* if (issues.length === 0) { ...; return; }: main resolves, the process exits 0
EmptyRun(p) ==
  /\ pc' = [pc EXCEPT ![p] = "Done"]
  /\ exitCode' = [exitCode EXCEPT ![p] = 0]
  /\ UNCHANGED <<lastRunFile, wrote, genCalls>>

\* a new invocation of the pipeline: const runStartTime = new Date()
Start(p) ==
  /\ ~Running(p)
  /\ runs < MaxRuns
  /\ runs' = runs + 1
  /\ prev' = IF pc[p] = "Idle" THEN prev
             ELSE [start |-> runStartTime[p], outcome |-> pc[p], file |-> lastRunFile]
  /\ runStartTime' = [runStartTime EXCEPT ![p] = now]
  /\ pc' = [pc EXCEPT ![p] = "LoadState"]
  /\ lastRun' = [lastRun EXCEPT ![p] = NoDate]
  /\ cutoffUsed' = [cutoffUsed EXCEPT ![p] = NoDate]
  /\ issues' = [issues EXCEPT ![p] = {}]
  /\ analysis' = [analysis EXCEPT ![p] = NoAnalysis]
  /\ exitCode' = [exitCode EXCEPT ![p] = Null]
  /\ log' = [log EXCEPT ![p] = <<>>]
  /\ genCalls' = [genCalls EXCEPT ![p] = 0]
  /\ sinkCalls' = [sinkCalls EXCEPT ![p] = 0]
  /\ sinkArg' = [sinkArg EXCEPT ![p] = NoAnalysis]
  /\ wrote' = [wrote EXCEPT ![p] = FALSE]
  /\ fileAtStart' = [fileAtStart EXCEPT ![p] = lastRunFile]
  /\ fetchIssuedAt' = [fetchIssuedAt EXCEPT ![p] = Null]
  /\ jiraCalls' = [jiraCalls EXCEPT ![p] = 0]
  /\ UNCHANGED <<clockVars, faults, jiraVars, lastRunFile, delivered, owed, skipped, loaderVars, libVars>>

\* (variant: the connection to Jira is tried before the configuration is found
\* to be incomplete)
LoadStateConnectingFirst(p) ==
  /\ pc[p] = "LoadState"
  /\ \E readOk \in BOOLEAN, configOk \in BOOLEAN :
       /\ lastRun' = [lastRun EXCEPT ![p] = getLastRunTimestamp(lastRunFile, readOk)]
       /\ IF configOk
            THEN /\ pc' = [pc EXCEPT ![p] = "TestConn"]
                 /\ log' = [log EXCEPT ![p] = Append(@, "LoadState")]
                 /\ jiraCalls' = [jiraCalls EXCEPT ![p] = @ + 1]
                 /\ UNCHANGED <<exitCode, lastRunFile, wrote>>
            ELSE /\ FailRun(p)
                 /\ jiraCalls' = [jiraCalls EXCEPT ![p] = @ + 1]
                 /\ UNCHANGED log
  /\ UNCHANGED <<clockVars, faults, jiraVars, runStartTime, cutoffUsed, issues, analysis,
                 genCalls, sinkCalls, sinkArg, fileAtStart, fetchIssuedAt, historyVars,
                 loaderVars, libVars>>

\* getLastRunTimestamp(), loadConfig(), the three constructors, and the request
\* of jiraClient.testConnection()
LoadState(p) ==
  /\ pc[p] = "LoadState"
  /\ \E readOk \in BOOLEAN, configOk \in BOOLEAN :
       /\ lastRun' = [lastRun EXCEPT ![p] = getLastRunTimestamp(lastRunFile, readOk)]
       /\ IF configOk
            THEN /\ pc' = [pc EXCEPT ![p] = "TestConn"]
                 /\ log' = [log EXCEPT ![p] = Append(@, "LoadState")]
                 /\ jiraCalls' = [jiraCalls EXCEPT ![p] = @ + 1]
                 /\ UNCHANGED <<exitCode, lastRunFile, wrote>>
            ELSE /\ FailRun(p)
                 /\ UNCHANGED <<log, jiraCalls>>
  /\ UNCHANGED <<clockVars, faults, jiraVars, runStartTime, cutoffUsed, issues, analysis,
                 genCalls, sinkCalls, sinkArg, fileAtStart, fetchIssuedAt, historyVars,
                 loaderVars, libVars>>

\* the answers of jiraClient.testConnection() and emailSender.testConnection(),
\* then the request of jiraClient.fetchBoardIssues(lastRun)
TestConn(p) ==
  /\ pc[p] = "TestConn"
  /\ \E jiraConnected \in BOOLEAN, emailConfigValid \in BOOLEAN :
       IF jiraConnected /\ emailConfigValid
         THEN /\ pc' = [pc EXCEPT ![p] = "Fetch"]
              /\ fetchIssuedAt' = [fetchIssuedAt EXCEPT ![p] = now]
              /\ jiraCalls' = [jiraCalls EXCEPT ![p] = @ + 1]
              /\ UNCHANGED <<exitCode, lastRunFile, wrote>>
         ELSE /\ FailRun(p)
              /\ UNCHANGED <<fetchIssuedAt, jiraCalls>>
  /\ UNCHANGED <<clockVars, faults, jiraVars, runStartTime, lastRun, cutoffUsed, issues, analysis,
                 log, genCalls, sinkCalls, sinkArg, fileAtStart, historyVars, loaderVars, libVars>>

\* the answer of fetchBoardIssues: an error, no issue, or a page of issues, which
\* is simplified and handed to analyzeIssues (one client.messages.create)
Fetch(p) ==
  /\ pc[p] = "Fetch"
  /\ \/ /\ FailRun(p)
        /\ UNCHANGED <<cutoffUsed, issues, log, genCalls, owed, skipped>>
     \/ \E cutoff \in FilterCutoffs(DateFilter(lastRun[p]), now) :
        \E page \in FetchAnswers(lastRun[p], now, cutoff) :
          /\ issues' = [issues EXCEPT ![p] = page]
          /\ cutoffUsed' = [cutoffUsed EXCEPT ![p] = cutoff]
          /\ log' = [log EXCEPT ![p] = Append(@, "Fetch")]
          /\ skipped' = skipped \cup (owed \ IdsOf(page))
          /\ owed' = owed \cup Matching(DateFilter(lastRun[p]), cutoff)
          /\ IF page = {}
               THEN EmptyRun(p)
               ELSE /\ pc' = [pc EXCEPT ![p] = "Analyze"]
                    /\ genCalls' = [genCalls EXCEPT ![p] = @ + 1]
                    /\ UNCHANGED <<exitCode, lastRunFile, wrote>>
  /\ UNCHANGED <<clockVars, faults, jiraVars, runStartTime, lastRun, analysis, sinkCalls, sinkArg,
                 fileAtStart, fetchIssuedAt, jiraCalls, runs, prev, delivered, loaderVars, libVars>>

\* (variant: when the generative call fails, a report without analysis is sent
\* before the run fails)
AnalyzeSendingPartial(p) ==
  /\ pc[p] = "Analyze"
  /\ \/ /\ FailRun(p)
        /\ sinkCalls' = [sinkCalls EXCEPT ![p] = @ + 1]
        /\ sinkArg' = [sinkArg EXCEPT ![p] = NoAnalysis]
        /\ UNCHANGED <<analysis, log>>
     \/ /\ analysis' = [analysis EXCEPT ![p] = AnalysisOf(issues[p])]
        /\ log' = [log EXCEPT ![p] = Append(@, "Analyze")]
        /\ sinkCalls' = [sinkCalls EXCEPT ![p] = @ + 1]
        /\ sinkArg' = [sinkArg EXCEPT ![p] = AnalysisOf(issues[p])]
        /\ pc' = [pc EXCEPT ![p] = "Report"]
        /\ UNCHANGED <<exitCode, lastRunFile, wrote>>
  /\ UNCHANGED <<clockVars, faults, jiraVars, runStartTime, lastRun, cutoffUsed, issues, genCalls,
                 fileAtStart, fetchIssuedAt, jiraCalls, historyVars, loaderVars, libVars>>

\* (variant: a failed generative call is repeated once before the run fails)
AnalyzeRetrying(p) ==
  /\ pc[p] = "Analyze"
  /\ \/ /\ genCalls[p] < 2
        /\ genCalls' = [genCalls EXCEPT ![p] = @ + 1]
        /\ UNCHANGED <<pc, exitCode, lastRunFile, wrote, analysis, log, sinkCalls, sinkArg>>
     \/ /\ genCalls[p] >= 2
        /\ FailRun(p)
        /\ UNCHANGED <<analysis, log, sinkCalls, sinkArg, genCalls>>
     \/ /\ analysis' = [analysis EXCEPT ![p] = AnalysisOf(issues[p])]
        /\ log' = [log EXCEPT ![p] = Append(@, "Analyze")]
        /\ sinkCalls' = [sinkCalls EXCEPT ![p] = @ + 1]
        /\ sinkArg' = [sinkArg EXCEPT ![p] = AnalysisOf(issues[p])]
        /\ pc' = [pc EXCEPT ![p] = "Report"]
        /\ UNCHANGED <<exitCode, lastRunFile, wrote, genCalls>>
  /\ UNCHANGED <<clockVars, faults, jiraVars, runStartTime, lastRun, cutoffUsed, issues,
                 fileAtStart, fetchIssuedAt, jiraCalls, historyVars, loaderVars, libVars>>

\* the answer of client.messages.create: an error (rethrown by analyzeIssues), or
\* a text, which is parsed into the AnalysisResult that sendReport hands to
\* sgMail.send
Analyze(p) ==
  /\ pc[p] = "Analyze"
  /\ \/ /\ FailRun(p)
        /\ UNCHANGED <<analysis, log, sinkCalls, sinkArg>>
     \/ /\ analysis' = [analysis EXCEPT ![p] = AnalysisOf(issues[p])]
        /\ log' = [log EXCEPT ![p] = Append(@, "Analyze")]
        /\ sinkCalls' = [sinkCalls EXCEPT ![p] = @ + 1]
        /\ sinkArg' = [sinkArg EXCEPT ![p] = AnalysisOf(issues[p])]
        /\ pc' = [pc EXCEPT ![p] = "Report"]
        /\ UNCHANGED <<exitCode, lastRunFile, wrote>>
  /\ UNCHANGED <<clockVars, faults, jiraVars, runStartTime, lastRun, cutoffUsed, issues, genCalls,
                 fileAtStart, fetchIssuedAt, jiraCalls, historyVars, loaderVars, libVars>>

\* the answer of sgMail.send: an error (rethrown by sendReport), or the report is
\* delivered and saveLastRunTimestamp(runStartTime) begins: fs.writeFileSync
\* opens .last-run, which empties it, or fails to, which is caught and ends
\* the run with exit code 0
Report(p) ==
  /\ pc[p] = "Report"
  /\ \/ /\ FailRun(p)
        /\ UNCHANGED <<log, delivered, owed, faults>>
     \/ \E opened \in BOOLEAN :
          /\ opened \/ faults > 0
          /\ faults' = IF opened THEN faults ELSE faults - 1
          /\ delivered' = delivered \cup IdsOf(issues[p])
          /\ owed' = owed \ IdsOf(issues[p])
          /\ IF opened
               THEN /\ lastRunFile' = TruncatedFile
                    /\ log' = [log EXCEPT ![p] = Append(@, "Report")]
                    /\ pc' = [pc EXCEPT ![p] = "Save"]
                    /\ UNCHANGED exitCode
               ELSE /\ UNCHANGED lastRunFile
                    /\ log' = [log EXCEPT ![p] = @ \o <<"Report", "PersistState">>]
                    /\ pc' = [pc EXCEPT ![p] = "Done"]
                    /\ exitCode' = [exitCode EXCEPT ![p] = 0]
          /\ UNCHANGED wrote
  /\ UNCHANGED <<clockVars, jiraVars, runStartTime, lastRun, cutoffUsed, issues, analysis,
                 genCalls, sinkCalls, sinkArg, fileAtStart, fetchIssuedAt, jiraCalls, runs, prev, skipped,
                 loaderVars, libVars>>

\* the write of that fs.writeFileSync, which other processes may have preceded
\* since the file was opened: the text goes to the start of the file as it is
\* by now, in full or until the write fails, which is caught; main returns and
\* the process exits 0
Save(p) ==
  /\ pc[p] = "Save"
  /\ \E written \in Written :
       /\ written.opened
       /\ WroteAll(written) \/ faults > 0
       /\ faults' = IF WroteAll(written) THEN faults ELSE faults - 1
       /\ lastRunFile' = saveLastRunTimestamp(lastRunFile, SavedTimestamp(p), written)
       /\ wrote' = [wrote EXCEPT ![p] = WroteAll(written)]
  /\ log' = [log EXCEPT ![p] = Append(@, "PersistState")]
  /\ pc' = [pc EXCEPT ![p] = "Done"]
  /\ exitCode' = [exitCode EXCEPT ![p] = 0]
  /\ UNCHANGED <<clockVars, jiraVars, runStartTime, lastRun, cutoffUsed, issues, analysis,
                 genCalls, sinkCalls, sinkArg, fileAtStart, fetchIssuedAt, jiraCalls, historyVars,
                 loaderVars, libVars>>

\* ------------------------------------------------------- JavaScript strings
\* a string is the sequence of its UTF-16 code units; a code unit outside
\* ASCII is written by its code point, as in "U+00C9". The strings of the
\* model are written in ASCII, Latin-1, the Unicode white space, and U+0130,
\* U+0307 and U+212A, whose lower case is not found by adding 32
UpperCase ==
  <<"A", "B", "C", "D", "E", "F", "G", "H", "I", "J", "K", "L", "M", "N", "O", "P",
    "Q", "R", "S", "T", "U", "V", "W", "X", "Y", "Z", "U+00C0", "U+00C1", "U+00C2",
    "U+00C3", "U+00C4", "U+00C5", "U+00C6", "U+00C7", "U+00C8", "U+00C9", "U+00CA",
    "U+00CB", "U+00CC", "U+00CD", "U+00CE", "U+00CF", "U+00D0", "U+00D1", "U+00D2",
    "U+00D3", "U+00D4", "U+00D5", "U+00D6", "U+00D8", "U+00D9", "U+00DA", "U+00DB",
    "U+00DC", "U+00DD", "U+00DE", "U+212A">>
LowerCase ==
  <<"a", "b", "c", "d", "e", "f", "g", "h", "i", "j", "k", "l", "m", "n", "o", "p",
    "q", "r", "s", "t", "u", "v", "w", "x", "y", "z", "U+00E0", "U+00E1", "U+00E2",
    "U+00E3", "U+00E4", "U+00E5", "U+00E6", "U+00E7", "U+00E8", "U+00E9", "U+00EA",
    "U+00EB", "U+00EC", "U+00ED", "U+00EE", "U+00EF", "U+00F0", "U+00F1", "U+00F2",
    "U+00F3", "U+00F4", "U+00F5", "U+00F6", "U+00F8", "U+00F9", "U+00FA", "U+00FB",
    "U+00FC", "U+00FD", "U+00FE", "k">>

\* c.toLowerCase() for one code unit c: one code unit, but two for U+0130
\* (capital I with a dot above), which becomes i and the combining dot U+0307
LowerOf ==
  [c \in {UpperCase[i] : i \in 1 .. Len(UpperCase)} |->
     LowerCase[CHOOSE i \in 1 .. Len(UpperCase) : UpperCase[i] = c]]

LowerChar(c) ==
  IF c = "U+0130" THEN <<"i", "U+0307">>
  ELSE IF c \in DOMAIN LowerOf THEN <<LowerOf[c]>>
  ELSE <<c>>

RECURSIVE Concat(_)
Concat(parts) == IF parts = <<>> THEN <<>> ELSE Head(parts) \o Concat(Tail(parts))

\* String.prototype.toLowerCase
toLowerCase(s) ==
  IF \A i \in 1 .. Len(s) : Len(LowerChar(s[i])) = 1
    THEN [i \in 1 .. Len(s) |-> LowerChar(s[i])[1]]
    ELSE Concat([i \in 1 .. Len(s) |-> LowerChar(s[i])])

\* String.prototype.includes
includes(s, sub) ==
  \E i \in 0 .. (Len(s) - Len(sub)) : SubSeq(s, i + 1, i + Len(sub)) = sub

\* ---------------------------------------------------- src/query/search.ts
\* an optional string field of a SimplifiedIssue
Undefined == [defined |-> FALSE, text |-> <<>>]
Defined(s) == [defined |-> TRUE, text |-> s]

\* what a search function returned or threw
NoResult == [kind |-> "none", error |-> "", list |-> <<>>]
Throw(e) == [kind |-> "throw", error |-> e, list |-> <<>>]
Return(kind, list) == [kind |-> kind, error |-> "", list |-> list]

NoCachedData == "No cached data found. Run \"npm run query\" first."

\* loadCachedIssues(): `cache.issues` of the parsed file, as it is: undefined
\* when the file has no such field (shape "missing"), null (shape "null"), a
\* string, number or object (shape "scalar"), or the list
loadCachedIssuesLenient(cache) ==
  IF cache.kind = "absent" THEN Return("list", <<>>)
  ELSE IF cache.kind = "unparsable" THEN Throw("SyntaxError")
  ELSE IF cache.kind = "null" THEN Throw("TypeError")
  ELSE IF cache.shape = "missing" THEN Return("undefined", <<>>)
  ELSE IF cache.shape = "null" THEN Return("null", <<>>)
  ELSE IF cache.shape = "scalar" THEN Return("scalar", <<>>)
  ELSE Return("list", cache.issues)

loadCachedIssues(cache) ==
  IF cache.kind = "absent" THEN Throw(NoCachedData)
  ELSE IF cache.kind = "unparsable" THEN Throw("SyntaxError")
  ELSE IF cache.kind = "null" THEN Throw("TypeError")
  ELSE IF cache.shape = "missing" THEN Return("undefined", <<>>)
  ELSE IF cache.shape = "null" THEN Return("null", <<>>)
  ELSE IF cache.shape = "scalar" THEN Return("scalar", <<>>)
  ELSE Return("list", cache.issues)

\* issues.find / issues.filter when `issues` is not an array: the error of
\* loadCachedIssues, or a TypeError
NotAnArray(loaded) == IF loaded.kind = "throw" THEN loaded ELSE Throw("TypeError")

\* findByKey(key): issues.find(issue => issue.key === key) || null
findByKey(cache, key) ==
  LET loaded == loadCachedIssues(cache)
      hits == SelectSeq(loaded.list, LAMBDA issue : issue.key = key)
  IN  IF loaded.kind # "list" THEN NotAnArray(loaded)
      ELSE IF hits = <<>> THEN Return("null", <<>>)
      ELSE Return("issue", <<Head(hits)>>)

\* searchByText(searchTerm)
searchByText(cache, searchTerm) ==
  LET loaded == loadCachedIssues(cache)
      lowerSearch == toLowerCase(searchTerm)
  IN  IF loaded.kind # "list" THEN NotAnArray(loaded)
      ELSE Return("list", SelectSeq(loaded.list,
             LAMBDA issue : \/ includes(toLowerCase(issue.summary), lowerSearch)
                            \/ includes(toLowerCase(issue.description), lowerSearch)
                            \/ includes(toLowerCase(issue.key), lowerSearch)))

\* searchByProductArea(productArea)
searchByProductArea(cache, productArea) ==
  LET loaded == loadCachedIssues(cache)
      lowerSearch == toLowerCase(productArea)
  IN  IF loaded.kind # "list" THEN NotAnArray(loaded)
      ELSE Return("list", SelectSeq(loaded.list,
             LAMBDA issue : /\ issue.productArea.defined
                            /\ includes(toLowerCase(issue.productArea.text), lowerSearch)))

\* searchByTheme(theme)
searchByTheme(cache, theme) ==
  LET loaded == loadCachedIssues(cache)
      lowerSearch == toLowerCase(theme)
  IN  IF loaded.kind # "list" THEN NotAnArray(loaded)
      ELSE Return("list", SelectSeq(loaded.list,
             LAMBDA issue : /\ issue.pageFeatureTheme.defined
                            /\ includes(toLowerCase(issue.pageFeatureTheme.text), lowerSearch)))

\* getAllIssues()
getAllIssues(cache) == loadCachedIssues(cache)

SearchOps == {"findByKey", "searchByText", "searchByProductArea", "searchByTheme",
              "getAllIssues"}

Searched(op, cache, arg) ==
  CASE op = "findByKey"           -> findByKey(cache, arg)
    [] op = "searchByText"        -> searchByText(cache, arg)
    [] op = "searchByProductArea" -> searchByProductArea(cache, arg)
    [] op = "searchByTheme"       -> searchByTheme(cache, arg)
    [] op = "getAllIssues"        -> getAllIssues(cache)

\* one call of an exported search function
Search ==
  /\ qresult = NoResult
  /\ qresult' = Searched(qop, qcache, qarg)
  /\ UNCHANGED <<clockVars, faults, jiraVars, pipelineVars, loaderVars, analyzerVars, textVars,
                 qcache, qop, qarg>>

InitSearchIdle ==
  /\ qcache = [kind |-> "absent", shape |-> "missing", issues |-> <<>>]
  /\ qop = "getAllIssues"
  /\ qarg = <<>>
  /\ qresult = NoResult

\* ------------------------------------------------- src/claude/analyzer.ts
\* String.prototype.startsWith
startsWith(s, prefix) == Len(s) >= Len(prefix) /\ SubSeq(s, 1, Len(prefix)) = prefix

\* String.prototype.substring(0, end)
substring(s, end) == SubSeq(s, 1, Min(end, Len(s)))

\* String.prototype.split('\n')
RECURSIVE split(_)
split(text) ==
  IF \A i \in 1 .. Len(text) : text[i] # "\n" THEN <<text>>
  ELSE LET i == CHOOSE j \in 1 .. Len(text) :
                  text[j] = "\n" /\ \A k \in 1 .. (j - 1) : text[k] # "\n"
       IN  <<SubSeq(text, 1, i - 1)>> \o split(SubSeq(text, i + 1, Len(text)))

\* /^\d+\./.test(s)
NumberedItem(s) ==
  LET d == LeadingLen(s, Digits)
  IN  d >= 1 /\ d < Len(s) /\ s[d + 1] = "."

\* s.replace(/^[-*]\s*/, '')
StripBullet(s) ==
  IF Len(s) > 0 /\ s[1] \in {"-", "*"}
    THEN LET rest == SubSeq(s, 2, Len(s))
         IN  SubSeq(rest, LeadingLen(rest, WhiteSpace) + 1, Len(rest))
    ELSE s

\* s.replace(/^\d+\.\s*/, '')
StripNumber(s) ==
  IF NumberedItem(s)
    THEN LET rest == SubSeq(s, LeadingLen(s, Digits) + 2, Len(s))
         IN  SubSeq(rest, LeadingLen(rest, WhiteSpace) + 1, Len(rest))
    ELSE s

\* trimmed.startsWith('-') || trimmed.startsWith('*') || /^\d+\./.test(trimmed)
ListItem(trimmed) ==
  startsWith(trimmed, <<"-">>) \/ startsWith(trimmed, <<"*">>) \/ NumberedItem(trimmed)

\* the section-header vocabulary of parseAnalysis
ExecutiveSummary == <<"e", "x", "e", "c", "u", "t", "i", "v", "e", " ", "s", "u", "m", "m", "a", "r", "y">>
Overview == <<"o", "v", "e", "r", "v", "i", "e", "w">>
HighPriority == <<"h", "i", "g", "h", " ", "p", "r", "i", "o", "r", "i", "t", "y">>
ImmediateAttention == <<"i", "m", "m", "e", "d", "i", "a", "t", "e", " ", "a", "t", "t", "e", "n", "t", "i", "o", "n">>
Recommendation == <<"r", "e", "c", "o", "m", "m", "e", "n", "d", "a", "t", "i", "o", "n">>

\* (variant: the header words are matched as they are written)
HeaderOfCaseSensitive(trimmed) ==
  LET lower == trimmed
  IN  IF includes(lower, ExecutiveSummary) \/ includes(lower, Overview) THEN "summary"
      ELSE IF includes(lower, HighPriority) \/ includes(lower, ImmediateAttention)
        THEN "priority"
      ELSE IF includes(lower, Recommendation) THEN "recommendations"
      ELSE ""

\* the section a line switches to ("" when it is no header)
HeaderOf(trimmed) ==
  LET lower == toLowerCase(trimmed)
  IN  IF includes(lower, ExecutiveSummary) \/ includes(lower, Overview) THEN "summary"
      ELSE IF includes(lower, HighPriority) \/ includes(lower, ImmediateAttention)
        THEN "priority"
      ELSE IF includes(lower, Recommendation) THEN "recommendations"
      ELSE ""

\* (variant: a list takes no more than three items)
ParseLineUpToThree(acc, line) ==
  LET trimmed == trim(line)
  IN  IF HeaderOf(trimmed) # "" THEN [acc EXCEPT !.currentSection = HeaderOf(trimmed)]
      ELSE IF Len(trimmed) = 0 \/ startsWith(trimmed, <<"#">>) THEN acc
      ELSE IF acc.currentSection = "summary"
        THEN [acc EXCEPT !.summary = @ \o trimmed \o <<" ">>]
      ELSE IF acc.currentSection = "priority" /\ ListItem(trimmed)
                /\ Len(acc.highPriorityItems) < 3
        THEN [acc EXCEPT !.highPriorityItems = Append(@, StripNumber(StripBullet(trimmed)))]
      ELSE IF acc.currentSection = "recommendations" /\ ListItem(trimmed)
                /\ Len(acc.recommendations) < 3
        THEN [acc EXCEPT !.recommendations = Append(@, StripNumber(StripBullet(trimmed)))]
      ELSE acc

\* one turn of the loop of parseAnalysis
ParseLine(acc, line) ==
  LET trimmed == trim(line)
  IN  IF HeaderOf(trimmed) # "" THEN [acc EXCEPT !.currentSection = HeaderOf(trimmed)]
      ELSE IF Len(trimmed) = 0 \/ startsWith(trimmed, <<"#">>) THEN acc
      ELSE IF acc.currentSection = "summary"
        THEN [acc EXCEPT !.summary = @ \o trimmed \o <<" ">>]
      ELSE IF acc.currentSection = "priority" /\ ListItem(trimmed)
        THEN [acc EXCEPT !.highPriorityItems = Append(@, StripNumber(StripBullet(trimmed)))]
      ELSE IF acc.currentSection = "recommendations" /\ ListItem(trimmed)
        THEN [acc EXCEPT !.recommendations = Append(@, StripNumber(StripBullet(trimmed)))]
      ELSE acc

RECURSIVE ParseLines(_, _)
ParseLines(acc, lines) ==
  IF lines = <<>> THEN acc ELSE ParseLines(ParseLine(acc, Head(lines)), Tail(lines))

\* (variant: no fallback when no summary was collected)
parseAnalysisWithoutFallback(text, metrics) ==
  LET acc == ParseLines([currentSection |-> "", summary |-> <<>>,
                         highPriorityItems |-> <<>>, recommendations |-> <<>>],
                        split(text))
  IN  [summary |-> acc.summary,
       highPriorityItems |-> acc.highPriorityItems,
       recommendations |-> acc.recommendations,
       metrics |-> metrics]

\* parseAnalysis(text, metrics)
parseAnalysis(text, metrics) ==
  LET acc == ParseLines([currentSection |-> "", summary |-> <<>>,
                         highPriorityItems |-> <<>>, recommendations |-> <<>>],
                        split(text))
  IN  [summary |-> IF acc.summary = <<>> THEN substring(text, 500) ELSE acc.summary,
       highPriorityItems |-> acc.highPriorityItems,
       recommendations |-> acc.recommendations,
       metrics |-> metrics]

\* the labels of all issues, in order
RECURSIVE LabelsOf(_)
LabelsOf(list) == IF list = <<>> THEN <<>> ELSE Head(list).labels \o LabelsOf(Tail(list))

\* the order of two strings of digits of equal length
RECURSIVE DigitsLess(_, _)
DigitsLess(a, b) ==
  /\ a # <<>>
  /\ \/ DigitValue(Head(a)) < DigitValue(Head(b))
     \/ Head(a) = Head(b) /\ DigitsLess(Tail(a), Tail(b))

\* a property key that is an array index: the canonical decimal numeral of
\* an integer from 0 to 2^32 - 2
IsArrayIndex(key) ==
  /\ Len(key) >= 1
  /\ \A i \in 1 .. Len(key) : key[i] \in Digits
  /\ Len(key) = 1 \/ key[1] # "0"
  /\ Len(key) < 10 \/ (Len(key) = 10 /\ DigitsLess(key, <<"4", "2", "9", "4", "9", "6", "7", "2", "9", "5">>))

\* the numeric order of two array indices
IndexLess(a, b) == Len(a) < Len(b) \/ (Len(a) = Len(b) /\ DigitsLess(a, b))

\* the properties labelCounts = {} inherits from Object.prototype, all of them
\* functions
PrototypeKeys ==
  {<<"c", "o", "n", "s", "t", "r", "u", "c", "t", "o", "r">>,
   <<"h", "a", "s", "O", "w", "n", "P", "r", "o", "p", "e", "r", "t", "y">>,
   <<"i", "s", "P", "r", "o", "t", "o", "t", "y", "p", "e", "O", "f">>,
   <<"p", "r", "o", "p", "e", "r", "t", "y", "I", "s", "E", "n", "u", "m", "e", "r", "a", "b", "l", "e">>,
   <<"t", "o", "L", "o", "c", "a", "l", "e", "S", "t", "r", "i", "n", "g">>,
   <<"t", "o", "S", "t", "r", "i", "n", "g">>,
   <<"v", "a", "l", "u", "e", "O", "f">>,
   <<"_", "_", "d", "e", "f", "i", "n", "e", "G", "e", "t", "t", "e", "r", "_", "_">>,
   <<"_", "_", "d", "e", "f", "i", "n", "e", "S", "e", "t", "t", "e", "r", "_", "_">>,
   <<"_", "_", "l", "o", "o", "k", "u", "p", "G", "e", "t", "t", "e", "r", "_", "_">>,
   <<"_", "_", "l", "o", "o", "k", "u", "p", "S", "e", "t", "t", "e", "r", "_", "_">>}

\* the accessor of Object.prototype: reading it gives the prototype, and
\* assigning a string to it sets nothing
ProtoAccessor == <<"_", "_", "p", "r", "o", "t", "o", "_", "_">>

\* the count of a label that names an inherited property: the first
\* `labelCounts[label] || 0` is the inherited function, so the sum is a
\* string, which `b - a` turns into NaN
StringCount == Null

\* the keys of labelCounts, as Object.entries lists them: the array-index
\* keys in rising numeric order, then the other keys in the order in which
\* they were first set
ObjectKeys(all) ==
  LET keys == {all[i] : i \in 1 .. Len(all)} \ {ProtoAccessor}
      first(l) == CHOOSE i \in 1 .. Len(all) : all[i] = l /\ \A j \in 1 .. (i - 1) : all[j] # l
      indices == {l \in keys : IsArrayIndex(l)}
      place(l) == IF l \in indices
                  THEN Cardinality({m \in indices : IndexLess(m, l)})
                  ELSE Cardinality(indices)
                         + Cardinality({m \in keys \ indices : first(m) < first(l)})
  IN  [k \in 1 .. Cardinality(keys) |-> CHOOSE l \in keys : place(l) = k - 1]

\* Object.entries(labelCounts) after the forEach loops
ObjectEntries(all) ==
  LET keys == ObjectKeys(all)
  IN  [k \in 1 .. Len(keys) |->
         [label |-> keys[k],
          count |-> IF keys[k] \in PrototypeKeys THEN StringCount
                    ELSE Len(SelectSeq(all, LAMBDA x : x = keys[k]))]]

\* the comparator ([, a], [, b]) => b - a as Array.prototype.sort reads it: a
\* NaN counts as 0
CallCompare(x, y) ==
  IF x.count = StringCount \/ y.count = StringCount THEN 0 ELSE y.count - x.count

\* Array.prototype.sort of V8 on an array of fewer than 64 elements: the
\* leading run is found (and reversed when it falls), then each further
\* element is put in its place by a binary search
CountRun(a) ==
  LET descending == CallCompare(a[2], a[1]) < 0
      goesOn(idx) == IF descending THEN CallCompare(a[idx], a[idx - 1]) < 0
                     ELSE CallCompare(a[idx], a[idx - 1]) >= 0
  IN  CHOOSE r \in 2 .. Len(a) :
        /\ \A idx \in 3 .. r : goesOn(idx)
        /\ r = Len(a) \/ ~goesOn(r + 1)

CountAndMakeRun(a) ==
  IF CallCompare(a[2], a[1]) < 0
    THEN [i \in 1 .. Len(a) |-> IF i <= CountRun(a) THEN a[CountRun(a) + 1 - i] ELSE a[i]]
    ELSE a

RECURSIVE BinarySearch(_, _, _, _)
BinarySearch(a, pivot, left, right) ==
  IF left >= right THEN left
  ELSE LET mid == left + (right - left) \div 2
       IN  IF CallCompare(pivot, a[mid]) < 0 THEN BinarySearch(a, pivot, left, mid)
           ELSE BinarySearch(a, pivot, mid + 1, right)

RECURSIVE BinaryInsertionSort(_, _)
BinaryInsertionSort(a, start) ==
  IF start > Len(a) THEN a
  ELSE LET left == BinarySearch(a, a[start], 1, start)
       IN  BinaryInsertionSort(
             SubSeq(a, 1, left - 1) \o <<a[start]>> \o SubSeq(a, left, start - 1)
               \o SubSeq(a, start + 1, Len(a)),
             start + 1)

ArraySort(a) ==
  IF Len(a) < 2 THEN a
  ELSE BinaryInsertionSort(CountAndMakeRun(a), CountRun(a) + 1)

\* Object.entries(labelCounts).sort(([, a], [, b]) => b - a).map(([label]) => label)
SortedLabels(list) ==
  LET sorted == ArraySort(ObjectEntries(LabelsOf(list)))
  IN  [k \in 1 .. Len(sorted) |-> sorted[k].label]

\* (variant: an issue counts as updated when it was edited after its creation)
calculateMetricsCountingEdits(list, t) ==
  LET fourDaysAgo == t - FourDays
  IN  [totalIssues |-> Len(list),
       newIssues |-> Len(SelectSeq(list, LAMBDA issue : issue.created > fourDaysAgo)),
       updatedIssues |-> Len(SelectSeq(list, LAMBDA issue : /\ issue.updated > fourDaysAgo
                                                         /\ issue.updated > issue.created)),
       commonLabels |-> SubSeq(SortedLabels(list), 1, Min(5, Len(SortedLabels(list))))]

\* (variant: an issue updated in the window counts as updated whenever created)
calculateMetricsCountingTwice(list, t) ==
  LET fourDaysAgo == t - FourDays
  IN  [totalIssues |-> Len(list),
       newIssues |-> Len(SelectSeq(list, LAMBDA issue : issue.created > fourDaysAgo)),
       updatedIssues |-> Len(SelectSeq(list, LAMBDA issue : issue.updated > fourDaysAgo)),
       commonLabels |-> SubSeq(SortedLabels(list), 1, Min(5, Len(SortedLabels(list))))]

\* calculateMetrics(issues), called at time t
calculateMetrics(list, t) ==
  LET fourDaysAgo == t - FourDays
  IN  [totalIssues |-> Len(list),
       newIssues |-> Len(SelectSeq(list, LAMBDA issue : issue.created > fourDaysAgo)),
       updatedIssues |-> Len(SelectSeq(list, LAMBDA issue : /\ issue.updated > fourDaysAgo
                                                         /\ issue.created <= fourDaysAgo)),
       commonLabels |-> SubSeq(SortedLabels(list), 1, Min(5, Len(SortedLabels(list))))]

NothingFound == <<"N", "o", " ", "p", "r", "o", "d", "u", "c", "t", " ", "f", "e", "e", "d", "b", "a", "c", "k", " ", "i", "s", "s", "u", "e", "s", " ", "f", "o", "u", "n", "d", " ", "i", "n", " ", "t", "h", "e", " ", "s", "p", "e", "c", "i", "f", "i", "e", "d", " ", "t", "i", "m", "e", " ", "p", "e", "r", "i", "o", "d", ".">>
ContinueMonitoring == <<"C", "o", "n", "t", "i", "n", "u", "e", " ", "m", "o", "n", "i", "t", "o", "r", "i", "n", "g", " ", "f", "o", "r", " ", "n", "e", "w", " ", "f", "e", "e", "d", "b", "a", "c", "k">>

\* getEmptyAnalysis()
getEmptyAnalysis ==
  [summary |-> NothingFound,
   highPriorityItems |-> <<>>,
   recommendations |-> <<ContinueMonitoring>>,
   metrics |-> [totalIssues |-> 0, newIssues |-> 0, updatedIssues |-> 0,
                commonLabels |-> <<>>]]

\* what analyzeIssues returned or threw
NoAnalysisResult ==
  [summary |-> <<>>, highPriorityItems |-> <<>>, recommendations |-> <<>>,
   metrics |-> [totalIssues |-> 0, newIssues |-> 0, updatedIssues |-> 0,
                commonLabels |-> <<>>]]
NoOutcome == [kind |-> "none", error |-> "", value |-> NoAnalysisResult]
Resolved(v) == [kind |-> "value", error |-> "", value |-> v]
Rejected(e) == [kind |-> "throw", error |-> e, value |-> NoAnalysisResult]

AnalysisFailed == "Failed to analyze issues with Claude"

\* formatIssuesForAnalysis(issues): a block for each issue, numbered from 1,
\* with the fields of the issue; the text is '' when there is no issue
formatIssuesForAnalysis(list) ==
  [i \in 1 .. Len(list) |->
     [index |-> i, updated |-> list[i].updated, labels |-> list[i].labels]]

\* a text that is null
NullText == [isNull |-> TRUE, blocks |-> <<>>]
Text(blocks) == [isNull |-> FALSE, blocks |-> blocks]

\* const allIssuesText = (allIssues && allIssues.length !== newIssues.length)
\*   ? this.formatIssuesForAnalysis(allIssues) : null
allIssuesText(newIssues, allIssues) ==
  IF allIssues.defined /\ Len(allIssues.list) # Len(newIssues)
    THEN Text(formatIssuesForAnalysis(allIssues.list))
    ELSE NullText

\* (variant: the prompt has no section for the other issues)
buildAnalysisPromptWithoutThemes(newText, allText, metrics, lastRunDate) ==
  [newIssues |-> newText.blocks,
   totalIssues |-> metrics.totalIssues,
   lastRunContext |-> lastRunDate,
   themesInstruction |-> FALSE,
   allIssues |-> <<>>]

\* buildAnalysisPrompt(newIssuesText, allIssuesText, metrics, lastRunDate): the
\* parts of the prompt that depend on the arguments; themesInstruction, with
\* the text of all issues in it, is there when allIssuesText is truthy
buildAnalysisPrompt(newText, allText, metrics, lastRunDate) ==
  [newIssues |-> newText.blocks,
   totalIssues |-> metrics.totalIssues,
   lastRunContext |-> lastRunDate,
   themesInstruction |-> ~allText.isNull /\ allText.blocks # <<>>,
   allIssues |-> IF ~allText.isNull /\ allText.blocks # <<>> THEN allText.blocks ELSE <<>>]

NoPrompt ==
  [newIssues |-> <<>>, totalIssues |-> 0, lastRunContext |-> Null,
   themesInstruction |-> FALSE, allIssues |-> <<>>]

\* (variant: the empty list is sent to the generative service like any other)
analyzeIssuesWithoutShortCut ==
  /\ apc = "idle"
  /\ agen' = agen + 1
  /\ ametrics' = calculateMetrics(anew, now)
  /\ aprompt' = buildAnalysisPrompt(Text(formatIssuesForAnalysis(anew)),
                                    allIssuesText(anew, aall),
                                    calculateMetrics(anew, now), alastRunDate)
  /\ apc' = "awaiting"
  /\ UNCHANGED aresult
  /\ UNCHANGED <<clockVars, faults, jiraVars, pipelineVars, loaderVars, searchVars, textVars,
                 anew, aall, alastRunDate, aresp>>

\* analyzeIssues(newIssues, allIssues, lastRunDate) up to its await: the fixed
\* result for an empty list, else the metrics and one client.messages.create
analyzeIssues ==
  /\ apc = "idle"
  /\ IF Len(anew) = 0
       THEN /\ aresult' = Resolved(getEmptyAnalysis)
            /\ apc' = "done"
            /\ UNCHANGED <<agen, ametrics, aprompt>>
       ELSE /\ agen' = agen + 1
            /\ ametrics' = calculateMetrics(anew, now)
            /\ aprompt' = buildAnalysisPrompt(Text(formatIssuesForAnalysis(anew)),
                                              allIssuesText(anew, aall),
                                              calculateMetrics(anew, now), alastRunDate)
            /\ apc' = "awaiting"
            /\ UNCHANGED aresult
  /\ UNCHANGED <<clockVars, faults, jiraVars, pipelineVars, loaderVars, searchVars, textVars,
                 anew, aall, alastRunDate, aresp>>

\* the answer of client.messages.create: a rejection, or a message whose first
\* content block is read (a TypeError when there is none); either error is
\* caught and rethrown as 'Failed to analyze issues with Claude'
MessageCreated ==
  /\ apc = "awaiting"
  /\ IF aresp.kind \in {"throw", "nocontent"}
       THEN /\ aresult' = Rejected(AnalysisFailed)
            /\ apc' = "failed"
       ELSE /\ aresult' = Resolved(parseAnalysis(IF aresp.kind = "text" THEN aresp.text ELSE <<>>,
                                                 ametrics))
            /\ apc' = "done"
  /\ UNCHANGED <<clockVars, faults, jiraVars, pipelineVars, loaderVars, searchVars, textVars,
                 anew, aall, alastRunDate, aresp, agen, ametrics, aprompt>>

InitAnalyzerIdle ==
  /\ anew = <<>>
  /\ aall = [defined |-> FALSE, list |-> <<>>]
  /\ alastRunDate = Null
  /\ aresp = [kind |-> "throw", text |-> <<>>]
  /\ apc = "idle"
  /\ agen = 0
  /\ ametrics = NoAnalysisResult.metrics
  /\ aresult = NoOutcome
  /\ aprompt = NoPrompt

\* ------------------------------------- src/jira/client.ts, descriptions
\* issue.fields.description is absent (null, undefined), a string, or a
\* document in the Atlassian document format: a node carries a text (<<>>:
\* none, or the empty string) or an array of nodes (hasContent: it has one)
\* and every text is a string, so that extractTextFromADF does not throw

NoDescriptionProvided == <<"N", "o", " ", "d", "e", "s", "c", "r", "i", "p", "t", "i", "o", "n", " ", "p", "r", "o", "v", "i", "d", "e", "d">>

AbsentBody == [kind |-> "absent", text |-> <<>>, adf |-> <<>>]
StringBody(s) == [kind |-> "string", text |-> s, adf |-> <<>>]
ObjectBody(node) == [kind |-> "object", text |-> <<>>, adf |-> node]
TextNode(s) == [text |-> s, hasContent |-> FALSE, content |-> <<>>]
ContentNode(nodes) == [text |-> <<>>, hasContent |-> TRUE, content |-> nodes]

\* .replace(/\s+/g, ' ')
CollapseWhiteSpace(s) ==
  LET marked == [i \in 1 .. Len(s) |->
                   IF s[i] \notin WhiteSpace THEN s[i]
                   ELSE IF i > 1 /\ s[i - 1] \in WhiteSpace THEN "" ELSE " "]
  IN  SelectSeq(marked, LAMBDA c : c # "")

\* extractText(node), and node.content.map(extractText).join(' ')
RECURSIVE extractText(_)
RECURSIVE JoinTexts(_)
extractText(node) ==
  IF node.text # <<>> THEN node.text
  ELSE IF node.hasContent THEN JoinTexts(node.content)
  ELSE <<>>

JoinTexts(nodes) ==
  IF nodes = <<>> THEN <<>>
  ELSE IF Len(nodes) = 1 THEN extractText(nodes[1])
  ELSE extractText(Head(nodes)) \o <<" ">> \o JoinTexts(Tail(nodes))

\* extractTextFromADF(adf)
extractTextFromADF(adf) ==
  IF ~adf.hasContent THEN NoDescriptionProvided
  ELSE IF trim(CollapseWhiteSpace(extractText(adf))) = <<>> THEN NoDescriptionProvided
  ELSE trim(CollapseWhiteSpace(extractText(adf)))

\* cleanDescription(description)
cleanDescription(body) ==
  IF body.kind = "absent" \/ (body.kind = "string" /\ body.text = <<>>)
  THEN NoDescriptionProvided
  ELSE IF body.kind = "object" THEN substring(extractTextFromADF(body.adf), 1000)
  ELSE substring(trim(CollapseWhiteSpace(body.text)), 1000)

\* simplifyIssues: description: this.cleanDescription(issue.fields.description)
SimplifyDescription ==
  /\ dpc = "raw"
  /\ description' = cleanDescription(rawDescription)
  /\ dpc' = "simplified"
  /\ UNCHANGED <<clockVars, faults, jiraVars, pipelineVars, loaderVars, searchVars, analyzerVars,
                 rawDescription, descriptionLine>>

\* formatIssuesForAnalysis: formatted += `- **Description**: ${issue.description}\n`
FormatDescription ==
  /\ dpc = "simplified"
  /\ descriptionLine' = <<"-", " ", "*", "*", "D", "e", "s", "c", "r", "i", "p", "t", "i", "o", "n", "*", "*", ":", " ">> \o description \o <<"\n">>
  /\ dpc' = "formatted"
  /\ UNCHANGED <<clockVars, faults, jiraVars, pipelineVars, loaderVars, searchVars, analyzerVars,
                 rawDescription, description>>

InitTextIdle ==
  /\ rawDescription = AbsentBody
  /\ description = <<>>
  /\ descriptionLine = <<>>
  /\ dpc = "formatted"

InitLibIdle == InitSearchIdle /\ InitAnalyzerIdle /\ InitTextIdle

\* ------------------------------------------------------ the pipeline, run
\* by the scheduler one invocation at a time
PipelineSteps == {TwentySec, ThreeDays, FiveDays}

InitLoaderIdle ==
  /\ cacheFile = NoCacheFile
  /\ lpc = "idle"
  /\ lforce = FALSE
  /\ lstart = Null
  /\ lcacheAtCall = NoCacheFile
  /\ lreadOk = TRUE
  /\ lfetched = {}
  /\ lresult = NoValue
  /\ lfetchCalls = 0
  /\ lwrites = 0
  /\ lcalls = 0

InitPipelineIdle ==
  /\ pc = [p \in Procs |-> "Idle"]
  /\ runStartTime = [p \in Procs |-> Null]
  /\ lastRun = [p \in Procs |-> NoDate]
  /\ cutoffUsed = [p \in Procs |-> NoDate]
  /\ issues = [p \in Procs |-> {}]
  /\ analysis = [p \in Procs |-> NoAnalysis]
  /\ exitCode = [p \in Procs |-> Null]
  /\ log = [p \in Procs |-> <<>>]
  /\ genCalls = [p \in Procs |-> 0]
  /\ sinkCalls = [p \in Procs |-> 0]
  /\ sinkArg = [p \in Procs |-> NoAnalysis]
  /\ wrote = [p \in Procs |-> FALSE]
  /\ fileAtStart = [p \in Procs |-> AbsentFile]
  /\ fetchIssuedAt = [p \in Procs |-> Null]
  /\ jiraCalls = [p \in Procs |-> 0]
  /\ runs = 0
  /\ prev = [start |-> Null, outcome |-> "none", file |-> AbsentFile]
  /\ delivered = {}
  /\ owed = {}
  /\ skipped = {}

\* what a write of an earlier run that was cut short may have left: one
\* character, three, and the date without the time
CutFiles == {SubSeq(toISOString(T0 - OneMinute), 1, n) : n \in {1, 3, 10}}

\* the pipeline on a machine on which `budget` writes of .last-run may fail
InitPipeline(budget) ==
  /\ now = T0
  /\ ticks = 0
  /\ faults = budget
  /\ upstream = [id \in Ids |-> NoRecord]
  /\ edits = 0
  /\ InitPipelineIdle
  /\ InitLoaderIdle
  /\ InitLibIdle

\* every write of .last-run completes; the file is whatever earlier runs left
Init == InitPipeline(0) /\ lastRunFile \in {AbsentFile, GarbageFile} \cup CutFiles

\* writes of .last-run may fail
InitFaulty == InitPipeline(MaxFaults) /\ lastRunFile \in {AbsentFile, GarbageFile}

Next ==
  \/ Tick(PipelineSteps)
  \/ \E id \in Ids : Upsert(id)
  \/ Start(1)
  \/ LoadState(1)
  \/ TestConn(1)
  \/ Fetch(1)
  \/ Analyze(1)
  \/ Report(1)
  \/ Save(1)

Spec == Init /\ [][Next]_vars

\* the runs as far as the code makes them go on: what main does without
\* awaiting is done; the requests to Jira are answered or fail within the
\* timeout of the axios client (30 s); client.messages.create and sgMail.send
\* are awaited without a timeout in the code, and may never return
SpecLive ==
  /\ Init
  /\ [][Next]_vars
  /\ WF_vars(LoadState(1))
  /\ WF_vars(TestConn(1))
  /\ WF_vars(Fetch(1))
  /\ WF_vars(Save(1))

\* runs on a machine without .last-run, on which writes may fail
InitFirstRun == InitPipeline(MaxFaults) /\ lastRunFile = AbsentFile

SpecFirstRun == InitFirstRun /\ [][Next]_vars

\* ------------------------------------------- the pipeline on a machine that
\* may stop while .last-run is being written
\* the process is killed, or the machine stops, inside the writeFileSync of
\* saveLastRunTimestamp: once the report is delivered and before the file is
\* opened, or after it was opened, with none, some or all of the text written
CrashInSave(p) ==
  /\ pc[p] \in {"Report", "Save"}
  /\ faults > 0
  /\ faults' = faults - 1
  /\ IF pc[p] = "Report"
       THEN /\ delivered' = delivered \cup IdsOf(issues[p])
            /\ owed' = owed \ IdsOf(issues[p])
            /\ log' = [log EXCEPT ![p] = Append(@, "Report")]
            /\ UNCHANGED lastRunFile
       ELSE /\ \E written \in Written :
                 /\ written.opened
                 /\ lastRunFile' = saveLastRunTimestamp(lastRunFile, SavedTimestamp(p), written)
            /\ UNCHANGED <<delivered, owed, log>>
  /\ pc' = [pc EXCEPT ![p] = "Crashed"]
  /\ UNCHANGED <<clockVars, jiraVars, runStartTime, lastRun, cutoffUsed, issues, analysis,
                 exitCode, genCalls, sinkCalls, sinkArg, wrote, fileAtStart, fetchIssuedAt, jiraCalls,
                 runs, prev, skipped, loaderVars, libVars>>

NextCrash ==
  \/ Tick(PipelineSteps)
  \/ \E id \in Ids : Upsert(id)
  \/ Start(1)
  \/ LoadState(1)
  \/ TestConn(1)
  \/ Fetch(1)
  \/ Analyze(1)
  \/ Report(1)
  \/ Save(1)
  \/ CrashInSave(1)

SpecCrash == InitFaulty /\ [][NextCrash]_vars

\* ------------------------------------------- src/query/loader.ts loadJiraIssues
\* loadJiraIssues(config, forceRefresh) up to its await: the cached issues are
\* returned, or fetchAllBoardIssues() is called.  The file is read only when it
\* exists and no refresh is forced; that read may throw (EACCES, EMFILE, EISDIR),
\* which the catch takes like a cache that does not parse
Load(forceRefresh) ==
  /\ lpc # "fetching"
  /\ lcalls < MaxLoads
  /\ lcalls' = lcalls + 1
  /\ lforce' = forceRefresh
  /\ lstart' = now
  /\ lcacheAtCall' = cacheFile
  /\ lfetched' = {}
  /\ lwrites' = 0
  /\ \E readOk \in BOOLEAN :
       /\ readOk \/ (~forceRefresh /\ cacheFile.kind # "absent")
       /\ lreadOk' = readOk
       /\ IF CacheHit(cacheFile, forceRefresh, readOk, now)
            THEN /\ lresult' = CachedValue(cacheFile)
                 /\ lfetchCalls' = 0
                 /\ lpc' = "done"
            ELSE /\ lresult' = NoValue
                 /\ lfetchCalls' = 1
                 /\ lpc' = "fetching"
  /\ UNCHANGED <<clockVars, faults, jiraVars, pipelineVars, libVars, cacheFile>>

\* (variant: a failed fetch is recorded as an empty snapshot)
LoadFetchedCachingFailure ==
  /\ lpc = "fetching"
  /\ \/ /\ lpc' = "failed"
        /\ cacheFile' = Snapshot(now, {})
        /\ lwrites' = lwrites + 1
        /\ UNCHANGED <<lfetched, lresult>>
     \/ \E page \in FetchAnswers(AllIssues, now, NoDate), written \in CacheWritten :
          /\ lfetched' = simplifyIssues(page)
          /\ cacheFile' = WrittenCache(cacheFile, now, simplifyIssues(page), written)
          /\ lwrites' = IF written = "all" THEN lwrites + 1 ELSE lwrites
          /\ lresult' = FetchedValue(simplifyIssues(page))
          /\ lpc' = "done"
  /\ UNCHANGED <<clockVars, faults, jiraVars, pipelineVars, libVars, lforce, lstart, lcacheAtCall,
                 lreadOk, lfetchCalls, lcalls>>

\* the answer of fetchAllBoardIssues(): an error, which loadJiraIssues lets
\* through, or the issues, which are simplified, written to the cache (a failing
\* write is caught and leaves the file as far as it got) and returned
LoadFetched ==
  /\ lpc = "fetching"
  /\ \/ /\ lpc' = "failed"
        /\ UNCHANGED <<cacheFile, lfetched, lresult, lwrites>>
     \/ \E page \in FetchAnswers(AllIssues, now, NoDate), written \in CacheWritten :
          /\ lfetched' = simplifyIssues(page)
          /\ cacheFile' = WrittenCache(cacheFile, now, simplifyIssues(page), written)
          /\ lwrites' = IF written = "all" THEN lwrites + 1 ELSE lwrites
          /\ lresult' = FetchedValue(simplifyIssues(page))
          /\ lpc' = "done"
  /\ UNCHANGED <<clockVars, faults, jiraVars, pipelineVars, libVars, lforce, lstart, lcacheAtCall,
                 lreadOk, lfetchCalls, lcalls>>

\* ------------------------------------------------- the query cache, run from
\* the CLI (fetch-data) one call at a time
CacheSteps == {TwentyMin, oneHour}

\* an issue of an earlier snapshot that Jira no longer has
OldIssue == [id |-> 0, created |-> T0 - FourDays, updated |-> T0 - FourDays]

\* the cache files the call may find
CacheFiles ==
  {NoCacheFile,
   [kind |-> "unparsable", timestamp |-> Null, shape |-> "missing", issues |-> {}],
   [kind |-> "null", timestamp |-> Null, shape |-> "missing", issues |-> {}]}
  \cup
  [kind : {"snapshot"},
   timestamp : {Null, T0 - oneHour, T0 - oneHour + 1, T0 + TwentyMin},
   shape : {"missing", "scalar"},
   issues : {{}}]
  \cup
  [kind : {"snapshot"},
   timestamp : {Null, T0 - oneHour, T0 - oneHour + 1, T0 + TwentyMin},
   shape : {"array"},
   issues : {{}, {OldIssue}}]

InitCache ==
  /\ now = T0
  /\ ticks = 0
  /\ faults = 0
  /\ upstream = [id \in Ids |-> NoRecord]
  /\ edits = 0
  /\ lastRunFile = AbsentFile
  /\ InitPipelineIdle
  /\ InitLibIdle
  /\ cacheFile \in CacheFiles
  /\ lpc = "idle"
  /\ lforce = FALSE
  /\ lstart = Null
  /\ lcacheAtCall = NoCacheFile
  /\ lreadOk = TRUE
  /\ lfetched = {}
  /\ lresult = NoValue
  /\ lfetchCalls = 0
  /\ lwrites = 0
  /\ lcalls = 0

NextCache ==
  \/ Tick(CacheSteps)
  \/ \E id \in Ids : Upsert(id)
  \/ \E forceRefresh \in BOOLEAN : Load(forceRefresh)
  \/ LoadFetched

SpecCache == InitCache /\ [][NextCache]_vars

\* ------------------------------------------- the search functions, each
\* called on a cache file as it may be found
\* the issues a snapshot may hold
LoginIssue ==
  [key |-> <<"B", "P", "D", "-", "1">>, summary |-> <<"L", "o", "g", "i", "n", " ", "B", "u", "g">>, description |-> <<"C", "r", "a", "s", "h", " ", "o", "n", " ", "s", "t", "a", "r", "t">>,
   productArea |-> Defined(<<"C", "o", "r", "e">>), pageFeatureTheme |-> Undefined]
ExportIssue ==
  [key |-> <<"B", "P", "D", "-", "2">>, summary |-> <<"E", "x", "p", "o", "r", "t">>, description |-> <<"s", "l", "o", "w", " ", "l", "o", "g", "i", "n">>,
   productArea |-> Undefined, pageFeatureTheme |-> Defined(<<"U", "I">>)]

\* an issue written with letters outside ASCII: "CAF\u00c9", "\u0130d"
CafeIssue ==
  [key |-> <<"B", "P", "D", "-", "3">>, summary |-> <<"C", "A", "F", "U+00C9">>,
   description |-> <<"U+0130", "d">>,
   productArea |-> Defined(<<"C", "a", "f", "U+00E9">>), pageFeatureTheme |-> Defined(<<"U+212A">>)]

\* the cache files a search may find
SearchFiles ==
  {[kind |-> "absent", shape |-> "missing", issues |-> <<>>],
   [kind |-> "unparsable", shape |-> "missing", issues |-> <<>>],
   [kind |-> "null", shape |-> "missing", issues |-> <<>>],
   [kind |-> "snapshot", shape |-> "missing", issues |-> <<>>],
   [kind |-> "snapshot", shape |-> "null", issues |-> <<>>],
   [kind |-> "snapshot", shape |-> "scalar", issues |-> <<>>]}
  \cup
  [kind : {"snapshot"}, shape : {"array"},
   issues : {<<>>, <<LoginIssue>>, <<ExportIssue>>, <<LoginIssue, ExportIssue>>,
             <<ExportIssue, LoginIssue>>, <<CafeIssue>>, <<LoginIssue, CafeIssue>>}]

\* the arguments a search may get
SearchArgs ==
  {<<>>, <<"B", "P", "D", "-", "1">>, <<"b", "p", "d", "-", "1">>, <<"L", "O", "G", "I", "N">>, <<"c", "o", "r", "e">>, <<"u", "i">>, <<"B", "P", "D">>, <<"z", "z", "z">>,
   <<"c", "a", "f", "U+00E9">>, <<"C", "A", "F", "U+00C9">>, <<"i", "d">>, <<"U+0130">>, <<"k">>}

InitSearch ==
  /\ now = T0
  /\ ticks = 0
  /\ faults = 0
  /\ upstream = [id \in Ids |-> NoRecord]
  /\ edits = 0
  /\ lastRunFile = AbsentFile
  /\ InitPipelineIdle
  /\ InitLoaderIdle
  /\ qcache \in SearchFiles
  /\ qop \in SearchOps
  /\ qarg \in SearchArgs
  /\ qresult = NoResult
  /\ InitAnalyzerIdle
  /\ InitTextIdle

NextSearch == Search

SpecSearch == InitSearch /\ [][NextSearch]_vars


\* ------------------------------------------- the source adapter, called by
\* the pipeline or by loadJiraIssues, on a Jira project and files as they may
\* be found.  The two programs share no file (.last-run is the pipeline's,
\* .jira-data-cache.json the loader's), so a behaviour follows one of
\* them.
\* the instants at which a record of the project may have been updated last;
\* .last-run may hold an instant of the hour that ends at DstEnd or of the hour
\* that follows, when the wall clock shows the same times again
UpdateInstants == {T0 - FourDays, DstEnd, T0 - 1, T0, T0 + TwentySec}

\* the Jira projects: ids are handed out in order
Projects ==
  {u \in [Ids -> {NoRecord} \cup [created : {T0 - FourDays}, updated : UpdateInstants]] :
     \A id \in Ids : \A j \in Ids : (j < id /\ u[id] # NoRecord) => u[j] # NoRecord}

InitSource ==
  /\ now = T0 + 2 * TwentySec
  /\ ticks = 0
  /\ faults = 0
  /\ upstream \in Projects
  /\ edits = 0
  /\ lastRunFile \in {AbsentFile, GarbageFile, toISOString(T0 + TwentySec),
                      toISOString(DstEnd - TwentyMin), toISOString(DstEnd + TwentyMin)}
                       \cup CutFiles
  /\ InitPipelineIdle
  /\ InitLibIdle
  /\ cacheFile \in {NoCacheFile, Snapshot(T0 - oneHour, {OldIssue}), Snapshot(T0, {OldIssue})}
  /\ lpc = "idle"
  /\ lforce = FALSE
  /\ lstart = Null
  /\ lcacheAtCall = NoCacheFile
  /\ lreadOk = TRUE
  /\ lfetched = {}
  /\ lresult = NoValue
  /\ lfetchCalls = 0
  /\ lwrites = 0
  /\ lcalls = 0

\* npm start
StartPipeline ==
  /\ lcalls = 0
  /\ Start(1)

\* npm run query / fetch-data
StartLoad ==
  /\ runs = 0
  /\ \E forceRefresh \in BOOLEAN : Load(forceRefresh)

NextSource ==
  \/ StartPipeline
  \/ LoadState(1)
  \/ TestConn(1)
  \/ Fetch(1)
  \/ Analyze(1)
  \/ Report(1)
  \/ Save(1)
  \/ StartLoad
  \/ LoadFetched

SpecSource == InitSource /\ [][NextSource]_vars

\* ------------------------------------------- analyzeIssues, called on lists
\* of issues and answered by the generative service as it may answer
\* the dates an issue may carry: created before, at and after the instant four
\* days before the call, updated at creation or later
IssueDates ==
  {d \in [created : {T0 - 2 * FourDays, T0 - FourDays, T0 - FourDays + 1},
          updated : {T0 - 2 * FourDays, T0 - FourDays, T0 - FourDays + 1, T0 - TwentySec}] :
     d.updated >= d.created}

IssuePool ==
  {[created |-> d.created, updated |-> d.updated, labels |-> ls] :
     d \in IssueDates, ls \in {<<>>, <<<<"b", "u", "g">>, <<"u", "i">>>>}}

IssueLists == UNION {[1 .. n -> IssuePool] : n \in 0 .. MaxIssues}

\* the labels an issue may carry where the ranking of the labels is looked at:
\* words, numerals, and more labels than the metrics keep
LabelPool ==
  {<<<<"b", "e", "t", "a">>>>,
   <<<<"7">>>>,
   <<<<"1", "0">>, <<"b", "e", "t", "a">>>>,
   <<<<"b", "e", "t", "a">>, <<"1", "0">>, <<"7">>>>,
   <<<<"f">>>>,
   <<<<"c", "o", "n", "s", "t", "r", "u", "c", "t", "o", "r">>>>,
   <<<<"t", "o", "S", "t", "r", "i", "n", "g">>, <<"f">>, <<"f">>>>,
   <<<<"_", "_", "p", "r", "o", "t", "o", "_", "_">>, <<"b", "e", "t", "a">>>>,
   <<<<"a">>, <<"b">>, <<"c">>, <<"d">>, <<"e">>, <<"f">>>>}

\* ten issues created a day ago and three created five days ago, all updated
\* within the last day
ThirteenIssues ==
  [i \in 1 .. 13 |->
     IF i <= 10
       THEN [created |-> T0 - OneDay, updated |-> T0 - OneDay + TwentySec * i, labels |-> <<>>]
       ELSE [created |-> T0 - FourDays - OneDay, updated |-> T0 - TwentySec * i, labels |-> <<>>]]

\* issues whose labels are the names of inherited properties, between labels
\* that are counted
InheritedNames ==
  {[i \in 1 .. Len(ls) |->
      [created |-> T0 - TwentySec, updated |-> T0 - TwentySec, labels |-> ls[i]]] :
     ls \in {<<<<<<"c", "o", "n", "s", "t", "r", "u", "c", "t", "o", "r">>>>, <<<<"a">>>>, <<<<"a">>>>>>,
             <<<<<<"a">>>>, <<<<"v", "a", "l", "u", "e", "O", "f">>>>, <<<<"a">>>>, <<<<"v", "a", "l", "u", "e", "O", "f">>>>, <<<<"v", "a", "l", "u", "e", "O", "f">>>>>>,
             <<<<<<"a">>, <<"c", "o", "n", "s", "t", "r", "u", "c", "t", "o", "r">>, <<"b">>, <<"b">>>>>>,
             <<<<<<"a">>, <<"b">>, <<"b">>, <<"h", "a", "s", "O", "w", "n", "P", "r", "o", "p", "e", "r", "t", "y">>, <<"c">>, <<"c">>, <<"c">>>>>>}}

LabelledLists ==
  UNION {[1 .. n -> {[created |-> T0 - TwentySec, updated |-> T0 - TwentySec, labels |-> ls] :
                       ls \in LabelPool}] : n \in 1 .. MaxIssues}

\* the lines a response may consist of
LinePool ==
  {<<>>,
   <<"#", "#", " ", "E", "x", "e", "c", "u", "t", "i", "v", "e", " ", "S", "u", "m", "m", "a", "r", "y">>,
   <<"O", "v", "e", "r", "v", "i", "e", "w">>,
   <<"#", "#", "#", " ", "H", "I", "G", "H", " ", "P", "R", "I", "O", "R", "I", "T", "Y", " ", "I", "T", "E", "M", "S">>,
   <<"N", "e", "e", "d", "s", " ", "i", "m", "m", "e", "d", "i", "a", "t", "e", " ", "a", "t", "t", "e", "n", "t", "i", "o", "n">>,
   <<"R", "e", "c", "o", "m", "m", "e", "n", "d", "a", "t", "i", "o", "n", "s", ":">>,
   <<"U", "s", "e", "r", "s", " ", "r", "e", "p", "o", "r", "t", " ", "s", "l", "o", "w", " ", "e", "x", "p", "o", "r", "t", ".">>,
   <<"-", " ", "F", "i", "x", " ", "l", "o", "g", "i", "n">>,
   <<"*", " ", "2", ".", " ", "A", "u", "d", "i", "t", " ", "e", "x", "p", "o", "r", "t", "s">>,
   <<"1", ".", " ", "S", "h", "i", "p", " ", "h", "o", "t", "f", "i", "x">>,
   <<"#", " ", "T", "i", "t", "l", "e">>,
   <<" ", " ", "S", "u", "m", "m", "a", "r", "y", ":", " ", "a", "l", "l", " ", "q", "u", "i", "e", "t", " ", "	">>}

RECURSIVE Join(_)
Join(ls) ==
  IF ls = <<>> THEN <<>>
  ELSE IF Len(ls) = 1 THEN ls[1]
  ELSE ls[1] \o <<"\n">> \o Join(Tail(ls))

\* a response of 600 characters without a header
LongProse == [i \in 1 .. 600 |-> IF i % 50 = 0 THEN "\n" ELSE "x"]

\* responses with more and with fewer than three items in a section
ManyItems == <<"O", "v", "e", "r", "v", "i", "e", "w", "\n", "A", "l", "l", " ", "q", "u", "i", "e", "t", ".", "\n", "H", "i", "g", "h", " ", "p", "r", "i", "o", "r", "i", "t", "y", "\n", "-", " ", "a", "\n", "p", "r", "o", "s", "e", " ", "h", "e", "r", "e", "\n", "*", " ", "b", "\n", "1", ".", " ", "c", "\n", "-", " ", "d", "\n", "2", ".", " ", "e", "\n", "R", "e", "c", "o", "m", "m", "e", "n", "d", "a", "t", "i", "o", "n", "s", "\n", "-", " ", "o", "n", "l", "y", " ", "o", "n", "e", "\n", "n", "o", "t", " ", "a", " ", "l", "i", "s", "t", " ", "l", "i", "n", "e">>

ManyItemsNoSummary == <<"#", "#", "#", " ", "H", "I", "G", "H", " ", "P", "R", "I", "O", "R", "I", "T", "Y", " ", "I", "T", "E", "M", "S", "\n", "-", " ", "a", "\n", "-", " ", "b", "\n", "-", " ", "c", "\n", "-", " ", "d", "\n", "s", "o", "m", "e", " ", "p", "r", "o", "s", "e", "\n", "\n", "#", "#", " ", "R", "e", "c", "o", "m", "m", "e", "n", "d", "a", "t", "i", "o", "n", "s", "\n", "1", ".", " ", "x", "\n", "2", ".", " ", "y", "\n", "3", ".", " ", "z", "\n", "4", ".", " ", "w">>

\* a response whose list items and prose lines contain header words
HeadersInside == <<"R", "e", "c", "o", "m", "m", "e", "n", "d", "a", "t", "i", "o", "n", "s", "\n", "-", " ", "F", "i", "x", " ", "l", "o", "g", "i", "n", "\n", "1", ".", " ", "S", "e", "e", " ", "t", "h", "e", " ", "H", "i", "g", "h", " ", "P", "r", "i", "o", "r", "i", "t", "y", " ", "o", "v", "e", "r", "v", "i", "e", "w", "\n", "U", "s", "e", "r", "s", " ", "r", "e", "p", "o", "r", "t", " ", "s", "l", "o", "w", " ", "e", "x", "p", "o", "r", "t", ".", "\n", "-", " ", "N", "e", "e", "d", "s", " ", "I", "M", "M", "E", "D", "I", "A", "T", "E", " ", "a", "t", "t", "e", "n", "t", "i", "o", "n", "\n", "*", " ", "i", "t", "e", "m", " ", "t", "w", "o", "\n", "o", "u", "r", " ", "r", "e", "c", "o", "m", "m", "e", "n", "d", "a", "t", "i", "o", "n", ":", " ", "w", "a", "i", "t", "\n", "-", " ", "r", "e", "c", " ", "t", "w", "o">>

\* a response written with white space other than blanks and tabs, and with
\* a capital I with a dot above in a header word
OddSpaces == <<"O", "v", "e", "r", "v", "i", "e", "w", "\f", "\n", "U+00A0", "A", "l", "l", " ", "q", "u", "i", "e", "t", ".", "U+2028", "\n", "H", "i", "g", "h", " ", "p", "r", "U+0130", "o", "r", "i", "t", "y", "\n", "H", "I", "G", "H", " ", "P", "R", "I", "O", "R", "I", "T", "Y", "U+000B", "\n", "\f", "-", "U+00A0", "F", "i", "x", " ", "l", "o", "g", "i", "n", "U+3000", "\n", "1", ".", "U+2029", "S", "h", "i", "p", "\n", "*", "\f", "A", "u", "d", "i", "t">>

Texts ==
  {Join(ls) : ls \in UNION {[1 .. n -> LinePool] : n \in 0 .. MaxLines}}
    \cup {LongProse, ManyItems, ManyItemsNoSummary, HeadersInside, OddSpaces}

\* the answers of client.messages.create: a rejection, a message without a
\* content block, a message whose first block is no text, a text
Responses ==
  {[kind |-> "throw", text |-> <<>>], [kind |-> "nocontent", text |-> <<>>],
   [kind |-> "tool_use", text |-> <<>>]}
  \cup [kind : {"text"}, text : Texts]

InitAnalyzerCall ==
  \/ /\ anew \in IssueLists
     /\ aall \in {[defined |-> FALSE, list |-> <<>>], [defined |-> TRUE, list |-> <<>>],
                  [defined |-> TRUE, list |-> anew],
                  [defined |-> TRUE, list |-> anew \o <<CHOOSE i \in IssuePool : TRUE>>]}
     /\ alastRunDate \in {Null, T0 - FourDays}
     /\ aresp = [kind |-> "tool_use", text |-> <<>>]
  \/ /\ anew \in IssueLists
     /\ aall = [defined |-> FALSE, list |-> <<>>]
     /\ alastRunDate = Null
     /\ aresp \in {[kind |-> "throw", text |-> <<>>],
                   [kind |-> "text", text |-> <<"O", "v", "e", "r", "v", "i", "e", "w", "\n", "A", "l", "l", " ", "q", "u", "i", "e", "t", ".">>]}
  \/ /\ anew = <<CHOOSE i \in IssuePool : TRUE>>
     /\ aall = [defined |-> FALSE, list |-> <<>>]
     /\ alastRunDate = Null
     /\ aresp \in Responses
  \/ /\ anew \in LabelledLists \cup InheritedNames \cup {ThirteenIssues}
     /\ aall = [defined |-> FALSE, list |-> <<>>]
     /\ alastRunDate = Null
     /\ aresp = [kind |-> "tool_use", text |-> <<>>]

InitAnalyzer ==
  /\ now = T0
  /\ ticks = 0
  /\ faults = 0
  /\ upstream = [id \in Ids |-> NoRecord]
  /\ edits = 0
  /\ lastRunFile = AbsentFile
  /\ InitPipelineIdle
  /\ InitLoaderIdle
  /\ InitSearchIdle
  /\ InitTextIdle
  /\ InitAnalyzerCall
  /\ apc = "idle"
  /\ agen = 0
  /\ ametrics = NoAnalysisResult.metrics
  /\ aresult = NoOutcome
  /\ aprompt = NoPrompt

NextAnalyzer ==
  \/ analyzeIssues
  \/ MessageCreated

SpecAnalyzer == InitAnalyzer /\ [][NextAnalyzer]_vars

\* ------------------------------------------- simplifyIssues and the prompt,
\* applied to one issue whose description Jira may have sent in any form

\* the strings of up to MaxBody letters, blanks, line ends, form feeds and
\* no-break spaces
BodyStrings == UNION {[1 .. n -> {"a", " ", "\n", "\f", "U+00A0"}] : n \in 0 .. MaxBody}

\* 1200 characters, a tab after every 99
LongBody == [i \in 1 .. 1200 |-> IF i % 100 = 0 THEN "\t" ELSE "x"]

\* a text between a form feed and a no-break space, a line separator inside
OddBody == <<"\f", "a", "U+2028", "U+000B", "b", "U+00A0">>

Paragraphs ==
  {TextNode(<<>>)} \cup
  {ContentNode(c) : c \in UNION {[1 .. n -> {TextNode(s) : s \in {<<>>, <<"a">>, <<" ">>}}] :
                                   n \in 0 .. MaxChildren}}

Documents ==
  {TextNode(<<>>), ContentNode(<<TextNode(LongBody)>>), ContentNode(<<TextNode(OddBody)>>)} \cup
  {ContentNode(c) : c \in UNION {[1 .. n -> Paragraphs] : n \in 0 .. MaxChildren}}

Bodies ==
  {AbsentBody, StringBody(LongBody)} \cup {StringBody(s) : s \in BodyStrings}
    \cup {ObjectBody(d) : d \in Documents}

InitText ==
  /\ now = T0
  /\ ticks = 0
  /\ faults = 0
  /\ upstream = [id \in Ids |-> NoRecord]
  /\ edits = 0
  /\ lastRunFile = AbsentFile
  /\ InitPipelineIdle
  /\ InitLoaderIdle
  /\ InitSearchIdle
  /\ InitAnalyzerIdle
  /\ rawDescription \in Bodies
  /\ description = <<>>
  /\ descriptionLine = <<>>
  /\ dpc = "raw"

NextText ==
  \/ SimplifyDescription
  \/ FormatDescription

SpecText == InitText /\ [][NextText]_vars

\* ------------------------------------------- two invocations of the pipeline
\* that overlap, on one machine: both use the same .last-run, which neither
\* locks; an issue is there for them to find.  Each of the two processes is
\* one invocation

InitRace ==
  /\ now = T0
  /\ ticks = 0
  /\ faults = MaxFaults
  /\ upstream = [id \in Ids |-> IF id = 1 THEN [created |-> T0 - TwentySec, updated |-> T0 - TwentySec]
                                ELSE NoRecord]
  /\ edits = 0
  /\ lastRunFile \in {AbsentFile, toISOString(T0 - OneMinute)}
  /\ InitPipelineIdle
  /\ InitLoaderIdle
  /\ InitLibIdle

\* the one invocation of process p
StartOnce(p) == pc[p] = "Idle" /\ Start(p)

NextRace ==
  \/ Tick({TwentySec})
  \/ \E p \in Procs : StartOnce(p)
  \/ \E p \in Procs : LoadState(p)
  \/ \E p \in Procs : TestConn(p)
  \/ \E p \in Procs : Fetch(p)
  \/ \E p \in Procs : Analyze(p)
  \/ \E p \in Procs : Report(p)
  \/ \E p \in Procs : Save(p)

SpecRace == InitRace /\ [][NextRace]_vars

\* =================================================================== claims
FullLog == <<"LoadState", "Fetch", "Analyze", "Report", "PersistState">>

IsPrefix(s, t) == Len(s) <= Len(t) /\ SubSeq(t, 1, Len(s)) = s

\* C1: .last-run is written only by the step that follows a successful
\* sendReport, in a run whose fetch and analysis returned: every step that changes
\* the file, or marks a write, is the step of a run that has fetched and
\* analysed and called the sink once, in which the report is delivered and the
\* file opened, or the step after it, which writes.
C1_WriteOnlyAfterNotification ==
  [][(lastRunFile' # lastRunFile \/ \E p \in Procs : wrote'[p] /\ ~wrote[p]) =>
       \E p \in Procs :
         /\ \/ /\ pc[p] = "Report" /\ pc'[p] = "Save"
               /\ log[p] = <<"LoadState", "Fetch", "Analyze">>
            \/ /\ pc[p] = "Save" /\ pc'[p] = "Done"
               /\ log'[p] = FullLog
         /\ issues[p] # {}
         /\ analysis[p] = AnalysisOf(issues[p])
         /\ sinkCalls[p] = 1
         /\ IdsOf(issues[p]) \subseteq delivered']_vars

C1_Witness ==
  \E p \in Procs : pc[p] = "Done" /\ wrote[p] /\ lastRunFile = toISOString(runStartTime[p])
                   /\ log[p] = FullLog

\* C2: the timestamp a run persists is its runStartTime, captured before the
\* run-state was read, and is never later than the moment its fetch was issued.
C2_PersistsStartTime ==
  \A p \in Procs :
    wrote[p] =>
      /\ lastRunFile = toISOString(runStartTime[p])
      /\ ~Before(Date(fetchIssuedAt[p]), DateParse(lastRunFile))

\* a run that persisted after time had passed since its start
C2_Witness ==
  \E p \in Procs : wrote[p] /\ pc[p] = "Done" /\ now > runStartTime[p]
                   /\ fetchIssuedAt[p] > runStartTime[p]

\* C3: no record is skipped: a record that the filter of some run covered is
\* returned by every later successful fetch until a delivered report has
\* included it.
C3_NoRecordSkipped == skipped = {}

\* C4: a run in which a step failed ends Failed with exit code 1 and leaves
\* .last-run exactly as it found it; a run that ends otherwise has passed every
\* step up to the point where it returned.
C4_FailureKeepsRunState ==
  \A p \in Procs :
    /\ pc[p] = "Failed" =>
         /\ exitCode[p] = 1
         /\ ~wrote[p]
         /\ lastRunFile = fileAtStart[p]
    /\ pc[p] = "Done" => log[p] = FullLog \/ (log[p] = <<"LoadState", "Fetch">> /\ issues[p] = {})

\* a run that failed at the notification, after a state had been persisted before
C4_Witness ==
  \E p \in Procs : pc[p] = "Failed" /\ log[p] = <<"LoadState", "Fetch", "Analyze">>
                   /\ sinkCalls[p] = 1 /\ Len(lastRunFile) = IsoLength

\* C5: the steps of a run return in the order LoadState, Fetch, Analyze, Report,
\* PersistState, each awaited only after the previous one returned; a run that
\* ends, ends Done (exit 0) or Failed (exit 1), never both; the sink is called
\* at most once per run, after the analysis returned, and with the result it
\* returned.
C5_StepOrder ==
  \A p \in Procs :
    /\ IsPrefix(log[p], FullLog)
    /\ pc[p] = "TestConn" => log[p] = <<"LoadState">>
    /\ pc[p] = "Fetch" => log[p] = <<"LoadState">>
    /\ pc[p] = "Analyze" => log[p] = <<"LoadState", "Fetch">>
    /\ pc[p] = "Report" => log[p] = <<"LoadState", "Fetch", "Analyze">>
    /\ pc[p] = "Save" => log[p] = <<"LoadState", "Fetch", "Analyze", "Report">>
    /\ (pc[p] = "Done") = (exitCode[p] = 0)
    /\ (pc[p] = "Failed") = (exitCode[p] = 1)
    /\ sinkCalls[p] <= 1
    /\ sinkCalls[p] = 1 =>
         /\ IsPrefix(<<"LoadState", "Fetch", "Analyze">>, log[p])
         /\ analysis[p] # NoAnalysis
         /\ analysis[p] = AnalysisOf(issues[p])
         /\ sinkArg[p] = analysis[p]

\* C5 as stated: the above, and every run ends
C5_StepOrderAndEnd ==
  /\ []C5_StepOrder
  /\ \A p \in Procs : Running(p) ~> pc[p] \in {"Done", "Failed"}

\* a second run that went through all five steps
C5_Witness ==
  \E p \in Procs : runs = 2 /\ pc[p] = "Done" /\ log[p] = FullLog /\ sinkCalls[p] = 1

\* C6: a run whose fetch returned no record ends with exit code 0, and has
\* called neither the generative service nor the sink, nor written .last-run.
C6_EmptyRun ==
  \A p \in Procs :
    (IsPrefix(<<"LoadState", "Fetch">>, log[p]) /\ issues[p] = {}) =>
      /\ pc[p] = "Done"
      /\ exitCode[p] = 0
      /\ genCalls[p] = 0
      /\ sinkCalls[p] = 0
      /\ ~wrote[p]
      /\ lastRunFile = fileAtStart[p]

\* an empty run with a persisted cutoff, while Jira does hold a record
C6_Witness ==
  \E p \in Procs : pc[p] = "Done" /\ issues[p] = {} /\ log[p] = <<"LoadState", "Fetch">>
                   /\ lastRun[p] # NoDate /\ \E id \in Ids : Exists(id)

\* C7: when an invocation follows one that completed and saved its run-state,
\* has read that run-state, and no record was created or edited in Jira since the
\* first invocation started, the second invocation calls the sink not at all, and
\* .last-run still holds a timestamp.
C7_SecondRunSilent ==
  \A p \in Procs :
    ( /\ prev.outcome = "Done"
      /\ prev.file = toISOString(prev.start)
      /\ lastRun[p] = Date(prev.start)
      /\ \A id \in Ids : Exists(id) => upstream[id].updated < prev.start ) =>
        /\ sinkCalls[p] = 0
        /\ DateParse(lastRunFile) # NoDate

\* a snapshot as loadJiraIssues writes it: a date and a list of issues
WellFormed(cache) == cache.kind = "snapshot" /\ cache.timestamp # Null /\ cache.shape = "array"

\* C8 as stated: a call without forceRefresh that finds a well-formed snapshot
\* younger than one hour returns the cached issues, calls no fetch and leaves
\* the file as it is; one that finds it one hour old or older calls the fetch.
C8_FreshnessLaw ==
  (lpc # "idle" /\ ~lforce /\ WellFormed(lcacheAtCall)) =>
     IF lstart - lcacheAtCall.timestamp < oneHour
       THEN /\ lpc = "done"
            /\ lfetchCalls = 0
            /\ lwrites = 0
            /\ cacheFile = lcacheAtCall
            /\ lresult = [shape |-> "array", issues |-> lcacheAtCall.issues]
       ELSE lfetchCalls = 1

\* C8: a call without forceRefresh that finds a well-formed snapshot younger than
\* one hour and reads the file without an error returns the cached issues,
\* calls no fetch and leaves the file as it is; one whose read of the file
\* fails, or that finds the snapshot one hour old or older, calls the fetch.
C8_FreshnessLawOfReadableCache ==
  (lpc # "idle" /\ ~lforce /\ WellFormed(lcacheAtCall)) =>
     IF lreadOk /\ lstart - lcacheAtCall.timestamp < oneHour
       THEN /\ lpc = "done"
            /\ lfetchCalls = 0
            /\ lwrites = 0
            /\ cacheFile = lcacheAtCall
            /\ lresult = [shape |-> "array", issues |-> lcacheAtCall.issues]
       ELSE lfetchCalls = 1

\* a second call that has read the snapshot the first call wrote and is
\* answered from it
C8_Witness ==
  /\ lcalls = 2 /\ lpc = "done" /\ ~lforce /\ lreadOk /\ lfetchCalls = 0
  /\ lresult.issues # {} /\ OldIssue \notin lresult.issues
  /\ now > lcacheAtCall.timestamp

\* a cache file that is missing, unparsable or not a snapshot
Corrupt(cache) == ~WellFormed(cache)

\* C9: a call that finds a missing, unparsable or structurally corrupt cache file
\* fetches once and returns what the fetch returned; it fails only when the fetch
\* fails.
C9_CorruptLikeStale ==
  (~lforce /\ Corrupt(lcacheAtCall)) =>
     /\ lpc \in {"fetching", "failed"} => lfetchCalls = 1
     /\ lpc = "done" => lfetchCalls = 1 /\ lresult = FetchedValue(lfetched)

\* C10: a successful cache write replaces the snapshot by the issues the fetch of
\* this call returned, all those Jira holds at that time and no other, stamped
\* with the time of the write.
C10_WholesaleReplace ==
  [][lwrites' = lwrites + 1 =>
       /\ lfetched' = {Issue(id) : id \in {i \in Ids : Exists(i)}}
       /\ cacheFile' = Snapshot(now, lfetched')
       /\ lresult' = FetchedValue(lfetched')]_vars

\* a refresh that dropped the issue of the previous snapshot
C10_Witness ==
  /\ lpc = "done" /\ lwrites = 1
  /\ OldIssue \in lcacheAtCall.issues
  /\ lfetched # {}
  /\ cacheFile = Snapshot(now, lfetched)

\* whether the issue is one the call asks for
Hit(op, issue, arg) ==
  CASE op = "findByKey"           -> issue.key = arg
    [] op = "searchByText"        ->
         \E field \in {issue.summary, issue.description, issue.key} :
           includes(toLowerCase(field), toLowerCase(arg))
    [] op = "searchByProductArea" ->
         /\ issue.productArea.defined
         /\ includes(toLowerCase(issue.productArea.text), toLowerCase(arg))
    [] op = "searchByTheme"       ->
         /\ issue.pageFeatureTheme.defined
         /\ includes(toLowerCase(issue.pageFeatureTheme.text), toLowerCase(arg))
    [] op = "getAllIssues"        -> TRUE

\* C11: a search function called when no cache file exists throws the
\* 'No cached data found' error; null or an empty list is returned only from a
\* snapshot in which no issue is one the call asks for
C11_NoCacheIsAnError ==
  qresult # NoResult =>
    /\ qcache.kind = "absent" => qresult = Throw(NoCachedData)
    /\ (qresult.kind = "null" \/ (qresult.kind = "list" /\ qresult.list = <<>>)) =>
         /\ qcache.kind = "snapshot"
         /\ qcache.shape \in {"array", "null"}
         /\ \A i \in 1 .. Len(qcache.issues) : ~Hit(qop, qcache.issues[i], qarg)

C11_Witness ==
  /\ qcache.kind = "absent"
  /\ qop = "searchByText"
  /\ qresult = Throw(NoCachedData)

\* C12: when the request of the source adapter fails, nothing is written: the
\* pipeline exits with code 1 and .last-run as it was, without a call of the
\* generative service or of the sink, and loadJiraIssues lets the error
\* through with the cache file as it was
C12_FailedFetchWritesNothing ==
  /\ \A p \in Procs :
       (pc[p] = "Failed" /\ fetchIssuedAt[p] # Null /\ log[p] = <<"LoadState">>) =>
         /\ exitCode[p] = 1
         /\ lastRunFile = fileAtStart[p]
         /\ ~wrote[p]
         /\ genCalls[p] = 0
         /\ sinkCalls[p] = 0
  /\ lpc = "failed" =>
       /\ cacheFile = lcacheAtCall
       /\ lwrites = 0
       /\ lresult = NoValue

\* a run whose request to Jira failed, with .last-run as it found it
C12_Witness ==
  /\ pc[1] = "Failed"
  /\ fetchIssuedAt[1] # Null
  /\ log[1] = <<"LoadState">>
  /\ fileAtStart[1] = toISOString(T0 + TwentySec)
  /\ lastRunFile = fileAtStart[1]
  /\ exitCode[1] = 1

\* C13: getLastRunTimestamp yields a timestamp only when .last-run holds one,
\* and then that one; it yields none when the file is absent, when its content
\* is not a date and when reading raises, and the run goes on; a run without a
\* timestamp fetches as a first run does, the records updated in the last four
\* days
C13_ReadNeverFails ==
  \A p \in Procs :
    pc[p] \notin {"Idle", "LoadState"} =>
      /\ LET held == IF fileAtStart[p] = AbsentFile THEN NoDate
                      ELSE DateParse(trim(fileAtStart[p]))
         IN  lastRun[p] \in {NoDate, held}
      /\ (lastRun[p] = NoDate /\ cutoffUsed[p] # NoDate) =>
           /\ cutoffUsed[p] = Date(now - FourDays)
           /\ IdsOf(issues[p]) =
                {id \in Ids : Exists(id) /\ upstream[id].updated >= now - FourDays}

\* a run whose read of a well-formed .last-run raised, and which went on as a
\* first run to its end
C13_Witness ==
  /\ fileAtStart[1] = toISOString(T0 + TwentySec)
  /\ lastRun[1] = NoDate
  /\ pc[1] = "Done"
  /\ log[1] = FullLog
  /\ cutoffUsed[1] = Date(now - FourDays)
  /\ \E i \in issues[1] : i.updated < T0

\* C14: .last-run is overwritten atomically: at every instant of a run, also
\* after a crash in the middle of the write, the file holds the complete value
\* the run found or the complete value the run writes
C14_AtomicOverwrite ==
  \A p \in Procs :
    pc[p] # "Idle" => lastRunFile \in {fileAtStart[p], toISOString(runStartTime[p])}

\* C15: the adapter filters in three modes.  Called without a cutoff it
\* selects the records updated in the last four days; called with a cutoff t
\* it selects the records updated at or after the bound that Jira applies,
\* which is never later than t; in 'all' mode it selects every record,
\* whenever updated.  A timestamp read from .last-run is passed as the
\* cutoff t.
C15_ThreeFilterModes ==
  /\ \A p \in Procs :
       cutoffUsed[p] # NoDate =>
         /\ lastRun[p] = NoDate => cutoffUsed[p] = Date(now - FourDays)
         /\ lastRun[p] # NoDate =>
              /\ lastRun[p] = DateParse(trim(fileAtStart[p]))
              /\ ~Before(lastRun[p], cutoffUsed[p])
         /\ IdsOf(issues[p]) =
              {id \in Ids : Exists(id) /\ ~Before(Date(upstream[id].updated), cutoffUsed[p])}
  /\ (lpc = "done" /\ lfetchCalls = 1) => IdsOf(lfetched) = {id \in Ids : Exists(id)}

\* C16: analyzeIssues called with an empty list returns the fixed result of
\* getEmptyAnalysis, with all counts zero and no high-priority item, and does
\* not call the generative service, whatever allIssues and lastRunDate are
C16_EmptyListShortCut ==
  (Len(anew) = 0 /\ apc # "idle") =>
    /\ apc = "done"
    /\ agen = 0
    /\ aresult = Resolved(getEmptyAnalysis)
    /\ aresult.value.highPriorityItems = <<>>
    /\ aresult.value.metrics.totalIssues = 0
    /\ aresult.value.metrics.newIssues = 0
    /\ aresult.value.metrics.updatedIssues = 0

\* an empty list analysed with a historical context and a last-run date
C16_Witness ==
  /\ Len(anew) = 0
  /\ apc = "done"
  /\ aall.defined
  /\ Len(aall.list) > 0
  /\ alastRunDate # Null

\* the text holds none of the phrases that make a line a section header
NoHeader(text) ==
  \A phrase \in {ExecutiveSummary, Overview, HighPriority, ImmediateAttention, Recommendation} :
    ~includes(toLowerCase(text), phrase)

\* C17: for a response without a section header parseAnalysis returns, the
\* summary being the first 500 characters of the response and both lists empty
C17_HeaderlessFallback ==
  (Len(anew) > 0 /\ apc \in {"done", "failed"} /\ aresp.kind = "text" /\ NoHeader(aresp.text)) =>
    /\ apc = "done"
    /\ aresult.kind = "value"
    /\ Len(aresult.value.summary) = Min(500, Len(aresp.text))
    /\ \A i \in 1 .. Len(aresult.value.summary) : aresult.value.summary[i] = aresp.text[i]
    /\ aresult.value.highPriorityItems = <<>>
    /\ aresult.value.recommendations = <<>>

\* a response of more than 500 characters, and one with list items and prose
\* outside any section
C17_Witness ==
  /\ apc = "done"
  /\ aresp.kind = "text"
  /\ NoHeader(aresp.text)
  /\ \/ Len(aresp.text) > 500 /\ Len(aresult.value.summary) = 500
     \/ /\ includes(aresp.text, <<"-", " ", "F", "i", "x">>)
        /\ includes(aresp.text, <<"S", "u", "m", "m", "a", "r", "y">>)

\* C18: when the list of new issues is not empty and the generative call
\* returned, the summary of the result is not empty
C18_SummaryNeverEmpty ==
  (Len(anew) > 0 /\ apc = "done") => aresult.value.summary # <<>>

\* C20: calculateMetrics counts an issue as new exactly when it was created
\* within the four days before the call, and as updated exactly when it was
\* not and was updated within them; no issue is counted twice, and totalIssues
\* is the length of the list
C20_MetricsClassification ==
  (Len(anew) > 0 /\ apc # "idle") =>
    LET InWindow(t) == t > now - FourDays
        new == {i \in 1 .. Len(anew) : InWindow(anew[i].created)}
        updated == {i \in 1 .. Len(anew) : ~InWindow(anew[i].created) /\ InWindow(anew[i].updated)}
    IN  /\ ametrics.newIssues = Cardinality(new)
        /\ ametrics.updatedIssues = Cardinality(updated)
        /\ ametrics.totalIssues = Len(anew)
        /\ ametrics.newIssues + ametrics.updatedIssues <= ametrics.totalIssues
        /\ apc = "done" => aresult.value.metrics = ametrics

\* a new issue and one created at the start of the window and updated in it
C20_Witness ==
  /\ apc = "done"
  /\ Len(anew) = 2
  /\ anew[1].created = T0 - FourDays + 1
  /\ anew[2].created = T0 - FourDays
  /\ anew[2].updated = T0 - TwentySec
  /\ aresult.value.metrics.newIssues = 1
  /\ aresult.value.metrics.updatedIssues = 1

\* C19: a run that fetched issues calls the generative service once and never
\* again; when that call fails the run has no analysis, ends Failed with exit
\* code 1, has not called the sink and leaves .last-run as it found it
C19_OneGenerativeCall ==
  \A p \in Procs :
    /\ genCalls[p] <= 1
    /\ (issues[p] # {} /\ pc[p] # "Fetch") => genCalls[p] = 1
    /\ (pc[p] = "Failed" /\ log[p] = <<"LoadState", "Fetch">>) =>
         /\ genCalls[p] = 1
         /\ analysis[p] = NoAnalysis
         /\ exitCode[p] = 1
         /\ sinkCalls[p] = 0
         /\ ~wrote[p]
         /\ lastRunFile = fileAtStart[p]

\* a run after a recorded one whose generative call failed
C19_Witness ==
  /\ pc[1] = "Failed"
  /\ log[1] = <<"LoadState", "Fetch">>
  /\ genCalls[1] = 1
  /\ Len(fileAtStart[1]) = IsoLength

\* C21: the top-tags metric lists at most 5 distinct tags, by falling number of
\* occurrences over all issues of the call, tags of equal number in the order
\* in which they were first seen; a tag outside the list occurs no more often
\* than any tag inside
C21_TopTagsRanking ==
  (apc # "idle" /\ anew # <<>>) =>
    LET all == LabelsOf(anew)
        top == ametrics.commonLabels
        keys == {all[i] : i \in 1 .. Len(all)}
        count(l) == Cardinality({i \in 1 .. Len(all) : all[i] = l})
        first(l) == CHOOSE i \in 1 .. Len(all) : all[i] = l /\ \A j \in 1 .. (i - 1) : all[j] # l
        inside == {top[i] : i \in 1 .. Len(top)}
    IN  /\ Len(top) <= 5
        /\ inside \subseteq keys
        /\ \A i, j \in 1 .. Len(top) : i < j =>
              \/ count(top[i]) > count(top[j])
              \/ count(top[i]) = count(top[j]) /\ first(top[i]) < first(top[j])
        /\ \A l \in keys \ inside, m \in inside : count(l) <= count(m)
        /\ Len(top) < 5 => inside = keys

\* C22: whatever form the description of the raw issue has (a string, a
\* document, none), the description of the simplified issue, which the prompt
\* carries unchanged, has at least 1 and at most 1000 characters
C22_DescriptionBounded ==
  /\ dpc # "raw" => Len(description) >= 1 /\ Len(description) <= 1000
  /\ dpc = "formatted" =>
       /\ Len(descriptionLine) - 20 >= 1 /\ Len(descriptionLine) - 20 <= 1000
       /\ SubSeq(descriptionLine, 20, Len(descriptionLine) - 1) = description

\* C23: a run whose configuration cannot be loaded ends with exit code 1
\* without having sent a request to Jira, to the generative service or to the
\* mail service, and without having written the run-state file
C23_ConfigErrorBeforeNetwork ==
  \A p \in Procs :
    (pc[p] = "Failed" /\ log[p] = <<>>) =>
      /\ exitCode[p] = 1
      /\ jiraCalls[p] = 0
      /\ fetchIssuedAt[p] = Null
      /\ genCalls[p] = 0
      /\ sinkCalls[p] = 0
      /\ ~wrote[p]
      /\ lastRunFile = fileAtStart[p]

\* a second run, started after a successful one, has failed on its configuration
C23_Witness ==
  /\ pc[1] = "Failed"
  /\ log[1] = <<>>
  /\ prev.outcome = "Done"
  /\ Len(lastRunFile) = IsoLength

\* the section a line lies in: that of the last header line up to it
SectionAt(lines, k) ==
  LET hs == {j \in 1 .. k : HeaderOf(trim(lines[j])) # ""}
  IN  IF hs = {} THEN ""
      ELSE HeaderOf(trim(lines[CHOOSE j \in hs : \A i \in hs : i <= j]))

\* the list-item lines of a section, without their markers, in order
ItemsOf(lines, section) ==
  LET ks == SelectSeq([k \in 1 .. Len(lines) |-> k],
                      LAMBDA k : /\ HeaderOf(trim(lines[k])) = ""
                                 /\ SectionAt(lines, k) = section
                                 /\ ListItem(trim(lines[k])))
  IN  [i \in 1 .. Len(ks) |-> StripNumber(StripBullet(trim(lines[ks[i]])))]

\* the lines, without those of the priority and recommendation sections that
\* are neither header nor list item
WithoutNonListLines(lines) ==
  LET ks == SelectSeq([k \in 1 .. Len(lines) |-> k],
                      LAMBDA k : \/ HeaderOf(trim(lines[k])) # ""
                                 \/ SectionAt(lines, k) \notin {"priority", "recommendations"}
                                 \/ ListItem(trim(lines[k])))
  IN  [i \in 1 .. Len(ks) |-> lines[ks[i]]]

\* some line of a summary section has text
SummaryCollected(lines) ==
  \E k \in 1 .. Len(lines) :
    /\ HeaderOf(trim(lines[k])) = ""
    /\ SectionAt(lines, k) = "summary"
    /\ trim(lines[k]) # <<>>
    /\ ~startsWith(trim(lines[k]), <<"#">>)

\* C24 as stated: each list holds exactly the list-item lines of its sections,
\* in order, however many they are, and the lines of those sections that are
\* no list items reach no field: without them every field is the same
C24_NonListLinesReachNoField ==
  (apc = "done" /\ anew # <<>> /\ aresp.kind = "text") =>
    LET lines == split(aresp.text)
        r == aresult.value
    IN  /\ r.highPriorityItems = ItemsOf(lines, "priority")
        /\ r.recommendations = ItemsOf(lines, "recommendations")
        /\ parseAnalysis(Join(WithoutNonListLines(lines)), r.metrics) = r

\* C24: each list holds exactly the list-item lines of its sections, in order,
\* however many they are; the lines of those sections that are no list items
\* reach no list, and reach the summary only when no summary line was
\* collected and the summary is the first 500 characters of the response
C24_ListItemsCollected ==
  (apc = "done" /\ anew # <<>> /\ aresp.kind = "text") =>
    LET lines == split(aresp.text)
        r == aresult.value
        q == parseAnalysis(Join(WithoutNonListLines(lines)), r.metrics)
    IN  /\ r.highPriorityItems = ItemsOf(lines, "priority")
        /\ r.recommendations = ItemsOf(lines, "recommendations")
        /\ q.highPriorityItems = r.highPriorityItems
        /\ q.recommendations = r.recommendations
        /\ IF SummaryCollected(lines) THEN q.summary = r.summary
           ELSE r.summary = substring(aresp.text, 500)

\* five priority items and one recommendation, prose between the items
C24_Witness ==
  /\ apc = "done"
  /\ aresp.text = ManyItems
  /\ Len(aresult.value.highPriorityItems) = 5
  /\ Len(aresult.value.recommendations) = 1
  /\ WithoutNonListLines(split(aresp.text)) # split(aresp.text)

\* the line contains the phrase, whatever the case of its letters
ContainsIgnoringCase(line, phrase) ==
  includes(toLowerCase(line), phrase)

\* a line that contains a header word, replaced by the bare word of its
\* section: summary words before priority words before recommendation
BareHeader(line) ==
  IF ContainsIgnoringCase(line, ExecutiveSummary) \/ ContainsIgnoringCase(line, Overview)
    THEN Overview
  ELSE IF ContainsIgnoringCase(line, HighPriority) \/ ContainsIgnoringCase(line, ImmediateAttention)
    THEN HighPriority
  ELSE IF ContainsIgnoringCase(line, Recommendation) THEN Recommendation
  ELSE line

BareHeaders(lines) == [k \in 1 .. Len(lines) |-> BareHeader(lines[k])]

\* C25 as stated: every line that contains a header word, in any case and
\* wherever it stands, only switches the section (summary before priority
\* before recommendation) and adds nothing to the summary or to a list: with
\* each such line replaced by the bare header word every field is the same
C25_HeaderLinesOnlySwitch ==
  (apc = "done" /\ anew # <<>> /\ aresp.kind = "text") =>
    parseAnalysis(Join(BareHeaders(split(aresp.text))), aresult.value.metrics) = aresult.value

\* C25: every line that contains a header word, in any case and wherever it
\* stands, switches the section (summary before priority before
\* recommendation) and is added to no list and not to the summary the loop
\* collects; it is part of the summary only when no summary line was collected
\* and the summary is the first 500 characters of the response
C25_HeaderLinesSwitchSection ==
  (apc = "done" /\ anew # <<>> /\ aresp.kind = "text") =>
    LET r == aresult.value
        q == parseAnalysis(Join(BareHeaders(split(aresp.text))), r.metrics)
    IN  /\ q.highPriorityItems = r.highPriorityItems
        /\ q.recommendations = r.recommendations
        /\ IF SummaryCollected(BareHeaders(split(aresp.text))) THEN q.summary = r.summary
           ELSE r.summary = substring(aresp.text, 500)

\* a list item with both summary and priority words has opened a summary
\* section, a list item in capitals a priority section, a prose line a
\* recommendation section
C25_Witness ==
  /\ apc = "done"
  /\ aresp.text = HeadersInside
  /\ aresult.value.summary = <<"U", "s", "e", "r", "s", " ", "r", "e", "p", "o", "r", "t", " ", "s", "l", "o", "w", " ", "e", "x", "p", "o", "r", "t", ".", " ">>
  /\ aresult.value.highPriorityItems = <<<<"i", "t", "e", "m", " ", "t", "w", "o">>>>
  /\ aresult.value.recommendations = <<<<"F", "i", "x", " ", "l", "o", "g", "i", "n">>, <<"r", "e", "c", " ", "t", "w", "o">>>>

\* C26 as stated: whenever allIssues is given together with a list of new
\* issues that is not empty, the prompt sent to the generative service has the
\* section of all issues, with the text of allIssues in it
C26_ContextAlwaysIncluded ==
  (apc # "idle" /\ anew # <<>> /\ aall.defined) =>
    /\ aprompt.themesInstruction
    /\ aprompt.allIssues = formatIssuesForAnalysis(aall.list)
    /\ aprompt.newIssues = formatIssuesForAnalysis(anew)

\* C26: whenever allIssues is given together with a list of new issues that
\* is not empty, and allIssues is not empty and differs from the new issues
\* in length, the prompt sent to the generative service has the section of
\* all issues, with the text of allIssues in it
C26_ContextIncluded ==
  (apc # "idle" /\ anew # <<>> /\ aall.defined
     /\ Len(aall.list) # 0 /\ Len(aall.list) # Len(anew)) =>
    /\ aprompt.themesInstruction
    /\ aprompt.allIssues = formatIssuesForAnalysis(aall.list)
    /\ aprompt.newIssues = formatIssuesForAnalysis(anew)

\* the call is awaited, the prompt holds two new issues and three in all
C26_Witness ==
  /\ apc = "awaiting"
  /\ Len(anew) = 2
  /\ aall.defined
  /\ Len(aall.list) = 3
  /\ Len(aprompt.allIssues) = 3
  /\ Len(aprompt.newIssues) = 2

\* C27: of two invocations that overlap, the one that saves the run-state
\* writes its own start time over whatever the file holds, also over a later
\* start time that the other has written
C27_LastWriterWins ==
  [][\A p \in Procs :
       (pc[p] = "Save" /\ pc'[p] = "Done" /\ wrote'[p]) =>
         lastRunFile' = toISOString(runStartTime[p])]_vars

\* both invocations have read the same run-state and fetched from the same
\* cutoff, both have sent a report with issue 1 in it, and the file holds the
\* start time of the first, which is earlier than the one the second wrote
C27_Witness ==
  /\ pc[1] = "Done" /\ pc[2] = "Done"
  /\ log[1] = FullLog /\ log[2] = FullLog
  /\ wrote[1] /\ wrote[2]
  /\ lastRun[1] = lastRun[2]
  /\ cutoffUsed[1] = cutoffUsed[2]
  /\ 1 \in sinkArg[1].of /\ 1 \in sinkArg[2].of
  /\ runStartTime[1] < runStartTime[2]
  /\ lastRunFile = toISOString(runStartTime[1])

\* C28: on a first run, when every issue was updated in the four days before
\* the metrics are computed and none before its creation, the new and the
\* updated issues add up to all issues
C28_NewPlusUpdatedIsTotal ==
  (apc # "idle" /\ anew # <<>> /\ alastRunDate = Null
     /\ \A i \in 1 .. Len(anew) : /\ anew[i].updated > now - FourDays
                                  /\ anew[i].updated >= anew[i].created) =>
    ametrics.newIssues + ametrics.updatedIssues = ametrics.totalIssues

\* ten issues created in the window and three created before it and updated
\* in it: 10, 3 and 13
C28_Witness ==
  /\ apc # "idle"
  /\ alastRunDate = Null
  /\ anew = ThirteenIssues
  /\ ametrics.newIssues = 10
  /\ ametrics.updatedIssues = 3
  /\ ametrics.totalIssues = 13

\* C29: when the write of the run-state fails after the report was delivered,
\* the run still ends as a success with exit code 0, the run-state file is
\* what it was before the run, and the next run reads the same date from it
C29_FailedSaveKeepsRunState ==
  \A p \in Procs :
    (pc[p] = "Done" /\ log[p] = FullLog /\ ~wrote[p]) =>
      /\ exitCode[p] = 0
      /\ lastRunFile = fileAtStart[p]
      /\ getLastRunTimestamp(lastRunFile, TRUE) = getLastRunTimestamp(fileAtStart[p], TRUE)

\* C30: in a sequence of runs that do not overlap and that starts without a
\* run-state file, the date in the file never goes back: a run that fails and
\* a run that finds no issue leave the file as it is, and a run that succeeds
\* puts its own start time into it, which is no earlier than any date the file
\* has held
C30_RunStateNeverDecreases ==
  [][\A p \in Procs :
       /\ (Running(p) /\ pc'[p] \in {"Done", "Failed"}) =>
            ~Before(DateParse(lastRunFile'), DateParse(fileAtStart[p]))
       /\ (Running(p) /\ pc'[p] = "Failed") => lastRunFile' = fileAtStart[p]
       /\ (Running(p) /\ pc'[p] = "Done" /\ log'[p] # FullLog) => lastRunFile' = fileAtStart[p]
       /\ (Running(p) /\ pc'[p] = "Done" /\ log'[p] = FullLog) =>
            /\ lastRunFile' = toISOString(runStartTime[p])
            /\ ~Before(Date(runStartTime[p]), DateParse(fileAtStart[p]))]_vars

====
